---- MODULE Spec2Model ----
(***************************************************************************)
(* A model of the synthetic-metrics export pipeline:                       *)
(*   src/src/config.py                  Config (the loaded YAML document)  *)
(*   src/src/dynatrace_client.py        DynatraceClient.calculate_statistics*)
(*   src/src/export_synthetic_metrics.py main (the per-metric loop)        *)
(*   src/src/helpers.py                 MetricsDataFrame, export_to_csv    *)
(*                                                                         *)
(* Python values are modelled as follows.                                  *)
(*   - str          a TLA+ string; "in" is substring search (Contains).    *)
(*   - dict         a TLA+ record; d.get(k, v) is Get(d, k, v).            *)
(*   - None         the record PyNone.                                     *)
(*   - float / int  an exact number [n, d, r]: n/d when r is FALSE and     *)
(*                  sqrt(n/d) when r is TRUE (only np.std produces r).     *)
(*                  IEEE-754 representation error is abstracted: the       *)
(*                  arithmetic is exact and round() rounds half to even.   *)
(*                  calculate_statistics_f64 keeps the binary64 rounding   *)
(*                  of the seconds summary.                                *)
(*   - a JSON value of the API response: N(i) for a number, PyNone for     *)
(*                  null, Txt(s) for a string.                             *)
(*   - a raised exception: the record Raise(kind).                         *)
(*   - a DataFrame  the sequence of its rows, each a function from column  *)
(*                  label to cell; the exported table also keeps the       *)
(*                  order of its columns.                                  *)
(***************************************************************************)
EXTENDS Integers, Sequences, FiniteSets, TLC

(***************************************************************************)
(* Bounds of the model.                                                    *)
(***************************************************************************)
\* Longest sample list handed to calculate_statistics.
MaxLen == 4
\* Most metric results processed by one run of main.
MaxMetrics == 2

(***************************************************************************)
(* Strings.                                                                *)
(***************************************************************************)
\* Python: sub in s
Contains(sub, s) ==
  \E i \in 1..(Len(s) - Len(sub) + 1) : SubSeq(s, i, i + Len(sub) - 1) = sub

\* Python: s.startswith(p)
StartsWith(s, p) == Len(p) <= Len(s) /\ SubSeq(s, 1, Len(p)) = p

LowerChar(c) ==
  CASE c = "A" -> "a" [] c = "B" -> "b" [] c = "C" -> "c" [] c = "D" -> "d"
    [] c = "E" -> "e" [] c = "F" -> "f" [] c = "G" -> "g" [] c = "H" -> "h"
    [] c = "I" -> "i" [] c = "J" -> "j" [] c = "K" -> "k" [] c = "L" -> "l"
    [] c = "M" -> "m" [] c = "N" -> "n" [] c = "O" -> "o" [] c = "P" -> "p"
    [] c = "Q" -> "q" [] c = "R" -> "r" [] c = "S" -> "s" [] c = "T" -> "t"
    [] c = "U" -> "u" [] c = "V" -> "v" [] c = "W" -> "w" [] c = "X" -> "x"
    [] c = "Y" -> "y" [] c = "Z" -> "z" [] OTHER -> c

\* Python: s.lower()
RECURSIVE Lower(_)
Lower(s) ==
  IF Len(s) = 0 THEN ""
  ELSE LowerChar(SubSeq(s, 1, 1)) \o Lower(SubSeq(s, 2, Len(s)))

(***************************************************************************)
(* Python values.                                                          *)
(***************************************************************************)
PyNone == [py_none |-> TRUE]
IsNone(v) == v = PyNone

\* Python: d.get(k, default)
Get(d, k, default) == IF k \in DOMAIN d THEN d[k] ELSE default

\* A raised exception, as the value of the call that raised it.
Raise(kind) == [raised |-> kind]
IsRaise(v) == "raised" \in DOMAIN v

\* JSON values of the API response.
N(i) == [num |-> i]
Txt(s) == [text |-> s]
IsNumeric(j) == "num" \in DOMAIN j

(***************************************************************************)
(* Exact numbers.                                                          *)
(***************************************************************************)
Abs(i) == IF i < 0 THEN -i ELSE i

RECURSIVE GCD(_, _)
GCD(a, b) == IF b = 0 THEN Abs(a) ELSE GCD(b, a % b)

LCM(a, b) == (a \div GCD(a, b)) * b

\* floor(sqrt(i)) for i >= 0, by bisection on [lo, hi].
RECURSIVE ISqrtIn(_, _, _)
ISqrtIn(i, lo, hi) ==
  IF lo >= hi THEN lo
  ELSE LET mid == (lo + hi + 1) \div 2
       IN  IF mid <= i \div mid THEN ISqrtIn(i, mid, hi)
           ELSE ISqrtIn(i, lo, mid - 1)

ISqrt(i) == IF i <= 0 THEN 0 ELSE ISqrtIn(i, 1, i)

IsSquare(i) == i >= 0 /\ ISqrt(i) * ISqrt(i) = i

\* The rational n/d, d # 0, in lowest terms with a positive denominator.
Rat(n, d) ==
  LET g == GCD(n, d)
      s == IF d < 0 THEN -1 ELSE 1
  IN  [n |-> s * (n \div g), d |-> s * (d \div g), r |-> FALSE]

Int2Num(i) == [n |-> i, d |-> 1, r |-> FALSE]

\* sqrt(n/d) for n/d >= 0; a rational root is kept as the rational.
Root(q) ==
  IF IsSquare(q.n) /\ IsSquare(q.d) THEN Rat(ISqrt(q.n), ISqrt(q.d))
  ELSE [n |-> q.n, d |-> q.d, r |-> TRUE]

\* Arithmetic on rationals (r = FALSE).
RAdd(a, b) ==
  LET l == LCM(a.d, b.d)
  IN  Rat(a.n * (l \div a.d) + b.n * (l \div b.d), l)

RNeg(a) == [a EXCEPT !.n = -a.n]
RSub(a, b) == RAdd(a, RNeg(b))

RMul(a, b) ==
  LET g1 == GCD(a.n, b.d)
      g2 == GCD(b.n, a.d)
  IN  IF a.n = 0 \/ b.n = 0 THEN Int2Num(0)
      ELSE Rat((a.n \div g1) * (b.n \div g2), (a.d \div g2) * (b.d \div g1))

RDivInt(a, i) == RMul(a, Rat(1, i))
RMulInt(a, i) == RMul(a, Int2Num(i))

RLe(a, b) ==
  LET l == LCM(a.d, b.d)
  IN  a.n * (l \div a.d) <= b.n * (l \div b.d)

RFloor(a) == a.n \div a.d

\* The square of a number (a root squares to its radicand).
Square(a) == IF a.r THEN [n |-> a.n, d |-> a.d, r |-> FALSE] ELSE RMul(a, a)

Sign(a) == IF a.n > 0 THEN 1 ELSE IF a.n < 0 THEN -1 ELSE 0

\* a <= b on numbers; roots are non-negative.
Le(a, b) ==
  IF ~a.r /\ ~b.r THEN RLe(a, b)
  ELSE IF Sign(a) <= 0 /\ Sign(b) >= 0 THEN TRUE
  ELSE IF Sign(a) > 0 /\ Sign(b) <= 0 THEN FALSE
  ELSE IF Sign(a) > 0 THEN RLe(Square(a), Square(b))
  ELSE RLe(Square(b), Square(a))

\* Python: a >= b
Ge(a, b) == Le(b, a)

Pow10(k) == IF k = 0 THEN 1 ELSE IF k = 1 THEN 10 ELSE IF k = 2 THEN 100 ELSE 1000

\* The integer nearest to the rational q, ties to the even one.
RoundHalfEven(q) ==
  LET f == RFloor(q)
      twice == RSub(RMulInt(q, 2), Int2Num(2 * f))  \* 2 * frac(q), in [0, 2)
  IN  IF twice.n < twice.d THEN f
      ELSE IF twice.n > twice.d THEN f + 1
      ELSE IF f % 2 = 0 THEN f ELSE f + 1

\* The integer nearest to sqrt(q) * 10^k for a rational q >= 0, ties to even.
RoundRootScaled(q, k) ==
  LET scaled == RMulInt(RMulInt(q, 4 * Pow10(k)), Pow10(k)) \* 4 * 10^2k * q
      m == ISqrt(RFloor(scaled))                \* floor(2 * 10^k * sqrt(q))
      up == (m + 1) \div 2
      tie == m % 2 = 1 /\ scaled.d = 1 /\ m * m = scaled.n
  IN  IF tie /\ up % 2 = 1 THEN up - 1 ELSE up

\* Python: round(x, ndigits)
Round(x, ndigits) ==
  IF x.r THEN Rat(RoundRootScaled(Square(x), ndigits), Pow10(ndigits))
  ELSE Rat(RoundHalfEven(RMulInt(x, Pow10(ndigits))), Pow10(ndigits))

(***************************************************************************)
(* Configuration documents (the content of config/metrics.yaml).           *)
(***************************************************************************)
EmptyDict == <<>>

\* Metric keys of the catalog.
K_actionDuration == "builtin:synthetic.browser.actionDuration.load"
K_visuallyComplete == "builtin:synthetic.browser.visuallyComplete.load"
K_cls == "builtin:synthetic.browser.cumulativeLayoutShift.load"
K_availability == "builtin:synthetic.browser.availability.location.total"
K_success == "builtin:synthetic.browser.success"
K_total == "builtin:synthetic.browser.total"
K_eventFailure == "builtin:synthetic.browser.event.failure"

\* Config._get_default_config: the built-in default document.
DefaultConfig ==
  [ metrics |-> <<>>,
    output_format |->
      [ csv |->
          [ columns |->
              << [key |-> "monitor_name", display_name |-> "Monitor", order |-> 1],
                 [key |-> "frequency", display_name |-> "Frequency(h)", order |-> 2],
                 [key |-> "device", display_name |-> "Device", order |-> 3],
                 [key |-> "location", display_name |-> "Location", order |-> 4],
                 [key |-> "metric_name", display_name |-> "Metric", order |-> 5],
                 [key |-> "metric_description", display_name |-> "Description", order |-> 6],
                 [key |-> "min", display_name |-> "Min", order |-> 7],
                 [key |-> "max", display_name |-> "Max", order |-> 8],
                 [key |-> "avg", display_name |-> "Avg", order |-> 9],
                 [key |-> "median", display_name |-> "Median", order |-> 10],
                 [key |-> "stdev", display_name |-> "Stdev", order |-> 11],
                 [key |-> "tags", display_name |-> "Tags", order |-> 12] >> ],
        time_metrics |->
          [ keywords |-> << "duration", "time", "byte", "paint", "complete",
                            "interactive", "contribution", "response", "event",
                            "index" >> ] ],
    defaults |->
      [ monitor |-> [type |-> "BROWSER", interval |-> 15, resolution |-> "15m",
                     location |-> "DEFAULT"],
        api |-> [request_interval |-> Int2Num(100), timeout |-> Int2Num(30)],
        output |-> [time_unit |-> "ms", encoding |-> "utf8-bom",
                    time_range |-> [min |-> 24, max |-> 120]],
        fallback |-> [stats |-> [default |-> Int2Num(0)], location |-> "DEFAULT"] ] ]

\* The metric catalog of a configuration file.  Only the first entry names an
\* aggregation the API accepts; "aggregation" and "name" are optional.
Catalog ==
  << [key |-> K_actionDuration, name |-> "Action duration",
      description |-> "Action duration (ms)", category |-> "Performance",
      aggregation |-> "avg", order |-> 1],
     [key |-> K_visuallyComplete, name |-> "Visually complete",
      description |-> "Visually complete (ms)", category |-> "Performance",
      order |-> 2],
     [key |-> K_cls,
      description |-> "Cumulative layout shift", category |-> "Performance",
      order |-> 3],
     [key |-> K_availability, name |-> "Availability",
      description |-> "Availability (%)", category |-> "Availability",
      order |-> 4],
     [key |-> K_success, name |-> "Success count",
      description |-> "Successful executions", category |-> "Executions",
      aggregation |-> "counter", order |-> 5],
     [key |-> K_total, name |-> "Total count",
      description |-> "Total executions", category |-> "Executions",
      aggregation |-> "counter", order |-> 6] >>

\* evaluation_criteria of a configuration file (time thresholds in seconds).
EvaluationCriteria ==
  [ evaluation_value |-> "avg",
    time_thresholds |->
      [ actionDuration |-> Rat(3, 10),
        actionDuration_strict |-> Rat(1, 5),
        visuallyComplete |-> Rat(1, 5) ],
    ratio_thresholds |->
      [ availability |-> Int2Num(99),
        cumulativeLayoutShift |-> Rat(1, 10) ] ]

\* action_duration_dual_criteria of a configuration file.
DualCriteria ==
  << [threshold_key |-> "actionDuration", display_suffix |-> "(1)",
      description |-> "Action duration, target"],
     [threshold_key |-> "actionDuration_strict", display_suffix |-> "(2)",
      description |-> "Action duration, strict"] >>

\* Column schemas of a configuration file: the entries are not listed in the
\* order of their order index, and "order" is optional.
SchemaColumns ==
  << [key |-> "metric_name", display_name |-> "Metric", order |-> 3],
     [key |-> "monitor_name", display_name |-> "Monitor", order |-> 1],
     [key |-> "location", display_name |-> "Location", order |-> 2],
     [key |-> "frequency", display_name |-> "Interval (h)"],
     [key |-> "metric_description", display_name |-> "Description", order |-> 4],
     [key |-> "avg", display_name |-> "Average", order |-> 5] >>

EvaluationColumns ==
  << [key |-> "metric_full_name", display_name |-> "Metric", order |-> 2],
     [key |-> "index", display_name |-> "No", order |-> 1],
     [key |-> "evaluation", display_name |-> "Result", order |-> 3],
     [key |-> "avg", display_name |-> "Average", order |-> 4],
     [key |-> "tags", display_name |-> "Tags"] >>

ExcelColumns ==
  << [key |-> "index", display_name |-> "No", order |-> 1],
     [key |-> "metric_full_name", display_name |-> "Metric", order |-> 2],
     [key |-> "evaluation", display_name |-> "Result", order |-> 3],
     [key |-> "action_duration", display_name |-> "Action duration", order |-> 4],
     [key |-> "visually_complete", display_name |-> "Visually complete",
      order |-> 5],
     [key |-> "cls", display_name |-> "CLS", order |-> 6] >>

\* excel_metric_column_mapping and excel_metric_order of a configuration file.
ExcelMapping ==
  (K_actionDuration :> "action_duration")
    @@ (K_visuallyComplete :> "visually_complete") @@ (K_cls :> "cls")

ExcelOrder ==
  << [metric_pattern |-> "Availability", order |-> 1],
     [metric_pattern |-> "actionDuration", order |-> 2] >>

\* sort_settings of a configuration file: a partial configuration, without the
\* category Executions and without the metric K_cls.
SortSettings ==
  [ category_order |-> << "Availability", "Performance" >>,
    metric_order |-> [ Performance |-> << K_visuallyComplete, K_actionDuration >> ] ]

\* A file that follows the documented schema: the time keywords are under
\* output_format.time_metrics.keywords, as in the built-in default.
DocSchema ==
  [ metrics |-> Catalog,
    output_format |-> [DefaultConfig.output_format
                         EXCEPT !.csv.columns = SchemaColumns],
    csv_columns_evaluation |-> EvaluationColumns,
    sort_settings |-> SortSettings,
    defaults |-> DefaultConfig.defaults,
    evaluation_criteria |-> EvaluationCriteria,
    action_duration_dual_criteria |-> DualCriteria ]

\* A file like DocSchema that selects the Excel layout of the evaluation
\* output, without an excel_metric_order.
DocExcel ==
  [ metrics |-> Catalog,
    output_format |-> DefaultConfig.output_format,
    output_format_excel |-> [enabled |-> TRUE, mode |-> "excel"],
    csv_columns_evaluation_excel |-> ExcelColumns,
    excel_metric_column_mapping |-> ExcelMapping,
    sort_settings |-> SortSettings,
    defaults |-> DefaultConfig.defaults,
    evaluation_criteria |-> EvaluationCriteria,
    action_duration_dual_criteria |-> DualCriteria ]

\* A file that also holds the time keywords under the top-level key
\* time_metrics_keywords, takes the median as the evaluation value, and has a
\* third criterion whose threshold key time_thresholds does not hold.  Its
\* column schema has an entry for "url", which the rows of the Raw mode do
\* not have, and it selects the Excel layout with an excel_metric_order.
DocTopLevel ==
  [ metrics |-> Catalog,
    output_format |-> [DefaultConfig.output_format
                         EXCEPT !.csv.columns =
                           Append(SchemaColumns,
                                  [key |-> "url", display_name |-> "URL",
                                   order |-> 6])],
    output_format_excel |-> [enabled |-> TRUE, mode |-> "excel"],
    csv_columns_evaluation_excel |-> ExcelColumns,
    excel_metric_column_mapping |-> ExcelMapping,
    excel_metric_order |-> ExcelOrder,
    time_metrics_keywords |-> DefaultConfig.output_format.time_metrics.keywords,
    defaults |-> [DefaultConfig.defaults EXCEPT !.output.time_unit = "s"],
    evaluation_criteria |->
      [EvaluationCriteria EXCEPT !.evaluation_value = "median"],
    action_duration_dual_criteria |->
      Append(DualCriteria,
             [threshold_key |-> "actionDuration_loose", display_suffix |-> "(3)",
              description |-> "Action duration, loose"]) ]

\* A file with a catalog and the API defaults only: no defaults.fallback, no
\* thresholds, no criteria.
DocNoFallback ==
  [ metrics |-> Catalog,
    defaults |-> [ api |-> DefaultConfig.defaults.api ] ]

\* A file that adds a catalog with the action-duration metric to the built-in
\* default: no thresholds, no action_duration_dual_criteria.
DocNoCriteria ==
  [ metrics |-> <<Catalog[1]>>,
    output_format |-> DefaultConfig.output_format,
    defaults |-> DefaultConfig.defaults ]

\* The states of the configuration file: absent, not parsable as YAML, an
\* empty document (yaml.safe_load returns None), or one of the documents.
ConfigFiles ==
  { [state |-> "missing"], [state |-> "unparsable"],
    [state |-> "parsed", doc |-> PyNone],
    [state |-> "parsed", doc |-> DocSchema],
    [state |-> "parsed", doc |-> DocTopLevel],
    [state |-> "parsed", doc |-> DocExcel],
    [state |-> "parsed", doc |-> DocNoFallback],
    [state |-> "parsed", doc |-> DocNoCriteria] }

\* Config.load_config: the configuration a file state yields.
load_config(file) ==
  IF file.state = "missing" THEN DefaultConfig
  ELSE IF file.state = "unparsable" THEN DefaultConfig
  ELSE file.doc

(***************************************************************************)
(* Config accessors.                                                       *)
(***************************************************************************)
\* Config.get_metrics
get_metrics(cfg) == Get(cfg, "metrics", <<>>)

\* Config.get_metric_definition: the first catalog entry with the key, or None.
get_metric_definition(cfg, metric_key) ==
  LET metrics == get_metrics(cfg)
      hits == {i \in DOMAIN metrics : Get(metrics[i], "key", "") = metric_key}
  IN  IF hits = {} THEN PyNone
      ELSE metrics[CHOOSE i \in hits : \A j \in hits : i <= j]

\* Config.get_time_metrics_keywords
get_time_metrics_keywords(cfg) == Get(cfg, "time_metrics_keywords", <<>>)

\* Config.is_counter_metric
is_counter_metric(cfg, metric_key) ==
  LET def == get_metric_definition(cfg, metric_key)
  IN  IF IsNone(def) THEN FALSE ELSE Get(def, "aggregation", "") = "counter"

\* Config.get_default: a KeyError yields None; a configuration that is None
\* raises TypeError, which the method does not catch.
get_default(cfg, category, key) ==
  IF IsNone(cfg) THEN Raise("TypeError")
  ELSE IF "defaults" \notin DOMAIN cfg THEN PyNone
  ELSE IF category \notin DOMAIN cfg.defaults THEN PyNone
  ELSE IF key \notin DOMAIN cfg.defaults[category] THEN PyNone
  ELSE cfg.defaults[category][key]

\* Config.get_evaluation_criteria
get_evaluation_criteria(cfg) == Get(cfg, "evaluation_criteria", EmptyDict)

\* Config.get_evaluation_value_type
get_evaluation_value_type(cfg) ==
  Get(get_evaluation_criteria(cfg), "evaluation_value", "avg")

\* Config._get_threshold_key_for_duplicate
get_threshold_key_for_duplicate(metric_key) == PyNone

\* get_metric_threshold without the conversion of seconds to milliseconds.
get_metric_threshold_unscaled(cfg, metric_key, unit) ==
  LET criteria == get_evaluation_criteria(cfg)
      time_thresholds == Get(criteria, "time_thresholds", EmptyDict)
      ratio_thresholds == Get(criteria, "ratio_thresholds", EmptyDict)
  IN  IF Contains("actionDuration", metric_key)
        THEN Get(time_thresholds, "actionDuration", PyNone)
      ELSE IF Contains("visuallyComplete", metric_key)
        THEN Get(time_thresholds, "visuallyComplete", PyNone)
      ELSE IF Contains("largestContentfulPaint", metric_key)
        THEN Get(time_thresholds, "largestContentfulPaint", PyNone)
      ELSE IF Contains("firstByte", metric_key)
        THEN Get(time_thresholds, "firstByte", PyNone)
      ELSE IF Contains("speedIndex", metric_key)
        THEN Get(time_thresholds, "speedIndex", PyNone)
      ELSE IF Contains("availability", metric_key)
        THEN Get(ratio_thresholds, "availability", PyNone)
      ELSE IF Contains("cumulativeLayoutShift", metric_key)
        THEN Get(ratio_thresholds, "cumulativeLayoutShift", PyNone)
      ELSE PyNone

\* Config.get_metric_threshold: the threshold of a metric in the given unit,
\* or None.
get_metric_threshold(cfg, metric_key, unit) ==
  LET criteria == get_evaluation_criteria(cfg)
      time_thresholds == Get(criteria, "time_thresholds", EmptyDict)
      ratio_thresholds == Get(criteria, "ratio_thresholds", EmptyDict)
      scaled(threshold) ==
        IF ~IsNone(threshold) /\ unit = "ms" THEN RMulInt(threshold, 1000)
        ELSE threshold
  IN  IF ~IsNone(get_threshold_key_for_duplicate(metric_key))
        THEN scaled(Get(time_thresholds,
                        get_threshold_key_for_duplicate(metric_key), PyNone))
      ELSE IF Contains("actionDuration", metric_key)
        THEN scaled(Get(time_thresholds, "actionDuration", PyNone))
      ELSE IF Contains("visuallyComplete", metric_key)
        THEN scaled(Get(time_thresholds, "visuallyComplete", PyNone))
      ELSE IF Contains("largestContentfulPaint", metric_key)
        THEN scaled(Get(time_thresholds, "largestContentfulPaint", PyNone))
      ELSE IF Contains("firstByte", metric_key)
        THEN scaled(Get(time_thresholds, "firstByte", PyNone))
      ELSE IF Contains("speedIndex", metric_key)
        THEN scaled(Get(time_thresholds, "speedIndex", PyNone))
      ELSE IF Contains("availability", metric_key)
        THEN Get(ratio_thresholds, "availability", PyNone)
      ELSE IF Contains("cumulativeLayoutShift", metric_key)
        THEN Get(ratio_thresholds, "cumulativeLayoutShift", PyNone)
      ELSE PyNone

\* Config.get_metric_duplicates
get_metric_duplicates(cfg) == Get(cfg, "action_duration_dual_criteria", <<>>)

\* evaluate_metric with a missing threshold taken as a failed comparison.
evaluate_metric_unset_fails(cfg, metric_key, value, time_unit) ==
  LET threshold == get_metric_threshold(cfg, metric_key, time_unit)
  IN  IF IsNone(threshold) THEN 0
      ELSE IF Contains("availability", metric_key)
        THEN (IF Ge(value, threshold) THEN 1 ELSE 0)
      ELSE (IF Le(value, threshold) THEN 1 ELSE 0)

\* evaluate_metric with strict comparisons: a value on the threshold fails.
evaluate_metric_strict(cfg, metric_key, value, time_unit) ==
  LET threshold == get_metric_threshold(cfg, metric_key, time_unit)
  IN  IF IsNone(threshold) THEN -1
      ELSE IF Contains("availability", metric_key)
        THEN (IF ~Le(value, threshold) THEN 1 ELSE 0)
      ELSE (IF ~Ge(value, threshold) THEN 1 ELSE 0)

\* Config.evaluate_metric: 1 (pass), 0 (fail) or -1 (no threshold).
evaluate_metric(cfg, metric_key, value, time_unit) ==
  LET threshold == get_metric_threshold(cfg, metric_key, time_unit)
  IN  IF IsNone(threshold) THEN -1
      ELSE IF Contains("availability", metric_key)
        THEN (IF Ge(value, threshold) THEN 1 ELSE 0)
      ELSE (IF Le(value, threshold) THEN 1 ELSE 0)

\* Config.is_evaluation_mode
is_evaluation_mode(output_mode) == output_mode = "evaluation"

\* Config.get_metric_full_name ("name:description")
get_metric_full_name(cfg, metric_key, description) ==
  LET metric_def == get_metric_definition(cfg, metric_key)
      metric_name == IF IsNone(metric_def) THEN metric_key
                     ELSE Get(metric_def, "name", metric_key)
  IN  metric_name \o ":" \o description

\* The rank a lookup yields when the configuration has none.
LastRank == 999

\* sorted(columns, key=lambda x: x.get('order', 999)): a stable sort.
RECURSIVE InsertByOrder(_, _)
InsertByOrder(col, cols) ==
  IF Len(cols) = 0 THEN <<col>>
  ELSE IF Get(col, "order", LastRank) < Get(cols[1], "order", LastRank)
    THEN <<col>> \o cols
  ELSE <<cols[1]>> \o InsertByOrder(col, Tail(cols))

SortedByOrder_unsorted(columns) == columns

RECURSIVE SortedByOrder(_)
SortedByOrder(cols) ==
  IF Len(cols) = 0 THEN <<>>
  ELSE InsertByOrder(cols[Len(cols)], SortedByOrder(SubSeq(cols, 1, Len(cols) - 1)))

\* Config.get_csv_columns
get_csv_columns(cfg) ==
  SortedByOrder(Get(Get(Get(cfg, "output_format", EmptyDict), "csv", EmptyDict),
                    "columns", <<>>))

\* Config.get_csv_columns_evaluation
get_csv_columns_evaluation(cfg) ==
  SortedByOrder(Get(cfg, "csv_columns_evaluation", <<>>))

\* Config.get_csv_columns_evaluation_excel
get_csv_columns_evaluation_excel(cfg) ==
  SortedByOrder(Get(cfg, "csv_columns_evaluation_excel", <<>>))

\* {item: idx for idx, item in enumerate(items)}: the 0-based position of the
\* last occurrence of item, or the default when items does not hold it.
PositionIn(items, item, default) ==
  LET at == {i \in DOMAIN items : items[i] = item}
  IN  IF at = {} THEN default
      ELSE (CHOOSE i \in at : \A j \in at : j <= i) - 1

\* Config.get_category_order, looked up:
\* category_order.get(category, 999)
category_rank(cfg, category) ==
  PositionIn(Get(Get(cfg, "sort_settings", EmptyDict), "category_order", <<>>),
             category, LastRank)

\* Config.get_metric_order, looked up:
\* metric_order.get(category, {}).get(metric, 999)
metric_rank(cfg, category, metric) ==
  PositionIn(Get(Get(Get(cfg, "sort_settings", EmptyDict), "metric_order",
                     EmptyDict), category, <<>>),
             metric, LastRank)

\* Config.get_metric_category
get_metric_category(cfg, metric_key) ==
  LET metric_def == get_metric_definition(cfg, metric_key)
  IN  IF IsNone(metric_def) THEN "Other"
      ELSE Get(metric_def, "category", "Other")

\* Config.get_excel_metric_column_mapping
get_excel_metric_column_mapping(cfg) ==
  Get(cfg, "excel_metric_column_mapping", EmptyDict)

\* Config.is_excel_format_enabled
is_excel_format_enabled(cfg) ==
  Get(Get(cfg, "output_format_excel", EmptyDict), "enabled", FALSE)

\* Config.get_excel_format_mode
get_excel_format_mode(cfg) ==
  Get(Get(cfg, "output_format_excel", EmptyDict), "mode", "standard")

\* Config.get_excel_metric_order
get_excel_metric_order(cfg) == Get(cfg, "excel_metric_order", <<>>)

(***************************************************************************)
(* DynatraceClient: statistics.                                            *)
(***************************************************************************)
\* numpy reductions over a non-empty sequence of rationals.
RECURSIVE SeqSum(_)
SeqSum(a) == IF Len(a) = 0 THEN Int2Num(0) ELSE RAdd(a[1], SeqSum(Tail(a)))

np_min(a) == a[CHOOSE i \in DOMAIN a : \A j \in DOMAIN a : RLe(a[i], a[j])]
np_max(a) == a[CHOOSE i \in DOMAIN a : \A j \in DOMAIN a : RLe(a[j], a[i])]
np_mean(a) == RDivInt(SeqSum(a), Len(a))

\* insertion of x into the sorted sequence a
RECURSIVE Insert(_, _)
Insert(x, a) ==
  IF Len(a) = 0 THEN <<x>>
  ELSE IF RLe(x, a[1]) THEN <<x>> \o a
  ELSE <<a[1]>> \o Insert(x, Tail(a))

RECURSIVE Sorted(_)
Sorted(a) == IF Len(a) = 0 THEN <<>> ELSE Insert(a[1], Sorted(Tail(a)))

np_median(a) ==
  LET b == Sorted(a)
      n == Len(a)
  IN  IF n % 2 = 1 THEN b[(n + 1) \div 2]
      ELSE RDivInt(RAdd(b[n \div 2], b[n \div 2 + 1]), 2)

\* population standard deviation: sqrt(mean(|x - mean|^2))
np_std(a) ==
  LET m == np_mean(a)
      dev == [i \in DOMAIN a |-> Square(RSub(a[i], m))]
  IN  Root(np_mean(dev))

\* DynatraceClient._is_time_metric
is_time_metric(cfg, metric_key) ==
  /\ metric_key # ""
  /\ \E lowered \in {Lower(metric_key)} :
       \E i \in DOMAIN get_time_metrics_keywords(cfg) :
         Contains(Lower(get_time_metrics_keywords(cfg)[i]), lowered)

\* The keys calculate_statistics sums instead of summarising.
SumKeys ==
  { "builtin:synthetic.browser.success", "builtin:synthetic.browser.success.geo",
    "builtin:synthetic.browser.failure", "builtin:synthetic.browser.failure.geo" }

\* The summary whose five fields all hold v.
FallbackStats(v) == [min |-> v, max |-> v, avg |-> v, median |-> v, stdev |-> v]

\* calculate_statistics, first statement:
\* default_value = self.config.get_default('fallback', 'stats')['default'].
\* It is evaluated outside the try block.
default_stats_value(cfg) ==
  LET stats == get_default(cfg, "fallback", "stats")
  IN  IF IsRaise(stats) THEN stats
      ELSE IF IsNone(stats) THEN Raise("TypeError")
      ELSE IF "default" \notin DOMAIN stats THEN Raise("KeyError")
      ELSE stats.default

AllNumeric(values) == \A i \in DOMAIN values : IsNumeric(values[i])

\* to_seconds without the division.
to_seconds_undivided(values_array) == values_array

\* calculate_statistics: values_array / 1000
to_seconds(values_array) ==
  [i \in DOMAIN values_array |-> RDivInt(values_array[i], 1000)]

\* calculate_statistics: the five numpy reductions
np_stats(values_array) ==
  [min |-> np_min(values_array), max |-> np_max(values_array),
   avg |-> np_mean(values_array), median |-> np_median(values_array),
   stdev |-> np_std(values_array)]

\* calculate_statistics: round every field of the summary
rounded(stats, ndigits) == [k \in DOMAIN stats |-> Round(stats[k], ndigits)]

\* calculate_statistics: sum(values) in every field, and stdev 0
total_stats(values_array) ==
  [min |-> SeqSum(values_array), max |-> SeqSum(values_array),
   avg |-> SeqSum(values_array), median |-> SeqSum(values_array),
   stdev |-> Int2Num(0)]

\* The body of the try block of calculate_statistics for numeric values.
summarise(cfg, values, metric_key, time_unit) ==
  IF metric_key \in SumKeys
    THEN total_stats([i \in DOMAIN values |-> Int2Num(values[i].num)])
  ELSE IF is_time_metric(cfg, metric_key) /\ time_unit = "s"
    THEN rounded(np_stats(to_seconds([i \in DOMAIN values |->
                                        Int2Num(values[i].num)])), 2)
  ELSE IF Contains("cumulativeLayoutShift", metric_key)
    THEN rounded(np_stats([i \in DOMAIN values |-> Int2Num(values[i].num)]), 3)
  ELSE np_stats([i \in DOMAIN values |-> Int2Num(values[i].num)])

\* DynatraceClient.calculate_statistics: the summary, or the exception raised.
\* A non-numeric value makes sum() or the numpy reductions raise inside the
\* try block, which returns the fallback summary.
calculate_statistics(cfg, values, metric_key, time_unit) ==
  LET default_value == default_stats_value(cfg)
  IN  IF IsRaise(default_value) THEN default_value
      ELSE IF Len(values) = 0 THEN FallbackStats(default_value)
      ELSE IF ~AllNumeric(values) THEN FallbackStats(default_value)
      ELSE summarise(cfg, values, metric_key, time_unit)

\* DynatraceClient.get_metric_description: the catalog description of the key
\* with its transformers cut off, or the key itself when the catalog has none.
TransformerNames == <<"sum", "avg", "max", "min", "median", "count", "splitBy">>

clean_metric_key(metric_key) ==
  LET cuts == {i \in 1..Len(metric_key) :
                 /\ SubSeq(metric_key, i, i) = ":"
                 /\ \E t \in DOMAIN TransformerNames :
                      StartsWith(SubSeq(metric_key, i + 1, Len(metric_key)),
                                 TransformerNames[t])}
  IN  IF cuts = {} THEN metric_key
      ELSE SubSeq(metric_key, 1, (CHOOSE i \in cuts : \A j \in cuts : i <= j) - 1)

get_metric_description(cfg, metric_key) ==
  LET metric_def == get_metric_definition(cfg, clean_metric_key(metric_key))
  IN  IF IsNone(metric_def) THEN metric_key
      ELSE Get(metric_def, "description", clean_metric_key(metric_key))

\* DynatraceClient.get_device_type
get_device_type(monitor) ==
  Get(Get(Get(Get(monitor, "script", EmptyDict), "configuration", EmptyDict),
          "device", EmptyDict), "deviceName", "Desktop")

\* DynatraceClient._get_single_metric: the selector sent to the API.
ValidAggregations == {"avg", "sum", "max", "min", "median", "count"}

metric_selector(metric_key, aggregation) ==
  IF aggregation \in ValidAggregations THEN metric_key \o ":" \o aggregation
  ELSE metric_key

(***************************************************************************)
(* main: the per-metric loop body.                                         *)
(***************************************************************************)
\* The position of the first ":" of s, or 0.
FirstColon(s) ==
  LET at == {i \in 1..Len(s) : SubSeq(s, i, i) = ":"}
  IN  IF at = {} THEN 0 ELSE CHOOSE i \in at : \A j \in at : i <= j

\* main: re.match(r"(builtin:[^:]+:[^:]+)", metric_key_raw), group 1 when it
\* matches and the raw id otherwise.
normalize_metric_key(metric_key_raw) ==
  IF ~StartsWith(metric_key_raw, "builtin:") THEN metric_key_raw
  ELSE
    LET rest == SubSeq(metric_key_raw, 9, Len(metric_key_raw))
        c1 == FirstColon(rest)
        after == SubSeq(rest, c1 + 1, Len(rest))
        c2 == FirstColon(after)
    IN  IF c1 <= 1 THEN metric_key_raw                     \* no second segment
        ELSE IF Len(after) = 0 \/ c2 = 1 THEN metric_key_raw
        ELSE IF c2 = 0 THEN metric_key_raw                 \* the whole id matches
        ELSE SubSeq(metric_key_raw, 1, 8 + c1 + c2 - 1)

\* main: the non-null values of every data entry of a metric result.
RECURSIVE NonNull(_)
NonNull(values) ==
  IF Len(values) = 0 THEN <<>>
  ELSE IF IsNone(values[1]) THEN NonNull(Tail(values))
  ELSE <<values[1]>> \o NonNull(Tail(values))

\* main: ', '.join(f"{tag['key']}:{tag['value']}" for tag in tags)
RECURSIVE join_tags(_)
join_tags(tags) ==
  IF Len(tags) = 0 THEN ""
  ELSE IF Len(tags) = 1 THEN tags[1].key \o ":" \o tags[1].value
  ELSE tags[1].key \o ":" \o tags[1].value \o ", " \o join_tags(Tail(tags))

\* main: the evaluation of one criterion of action_duration_dual_criteria.
criteria_evaluation(cfg, criteria, eval_value, actual_time_unit) ==
  LET threshold_key == Get(criteria, "threshold_key", "")
      threshold == Get(Get(get_evaluation_criteria(cfg), "time_thresholds",
                           EmptyDict), threshold_key, PyNone)
  IN  IF ~IsNone(threshold)
        THEN IF actual_time_unit = "s"
               THEN (IF Le(eval_value, threshold) THEN 1 ELSE 0)
               ELSE (IF Le(eval_value, RMulInt(threshold, 1000)) THEN 1 ELSE 0)
      ELSE -1

\* main: the row of one criterion of an action-duration metric.
action_row_data(cfg, output_mode, monitor, location, metric_key, stats, criteria, evaluation) ==
  LET display_suffix == Get(criteria, "display_suffix", "")
      description == Get(criteria, "description", "")
  IN  IF is_evaluation_mode(output_mode)
        THEN [code |-> "", corporate |-> "", no |-> "", code_no |-> "",
              metric_full_name |->
                get_metric_full_name(cfg, metric_key \o display_suffix, description),
              evaluation |-> evaluation, avg |-> stats.avg, url |-> "",
              index |-> 0, tags |-> join_tags(Get(monitor, "tags", <<>>))]
        ELSE [monitor_name |-> monitor.name,
              frequency |-> Get(monitor, "frequencyMin", 15),
              device |-> get_device_type(monitor), location |-> location.name,
              metric_name |-> metric_key \o display_suffix,
              metric_description |-> description,
              min |-> stats.min, max |-> stats.max, avg |-> stats.avg,
              median |-> stats.median, stdev |-> stats.stdev,
              tags |-> join_tags(Get(monitor, "tags", <<>>))]

\* main: the row of any other metric.
row_data(cfg, output_mode, monitor, location, metric_key, stats, evaluation) ==
  IF is_evaluation_mode(output_mode)
    THEN [code |-> "", corporate |-> "", no |-> "", code_no |-> "",
          metric_full_name |->
            get_metric_full_name(cfg, metric_key,
                                 get_metric_description(cfg, metric_key)),
          evaluation |-> evaluation, avg |-> stats.avg, url |-> "",
          index |-> 0, tags |-> join_tags(Get(monitor, "tags", <<>>))]
    ELSE [monitor_name |-> monitor.name,
          frequency |-> Get(monitor, "frequencyMin", 15),
          device |-> get_device_type(monitor), location |-> location.name,
          metric_name |-> metric_key,
          metric_description |-> get_metric_description(cfg, metric_key),
          min |-> stats.min, max |-> stats.max, avg |-> stats.avg,
          median |-> stats.median, stdev |-> stats.stdev,
          tags |-> join_tags(Get(monitor, "tags", <<>>))]

\* metric_rows with the metric's own evaluation copied into every criterion's
\* row.
metric_rows_shared_evaluation(cfg, output_mode, monitor, location, metric_key, stats, eval_value, evaluation, actual_time_unit) ==
  IF Contains("actionDuration", metric_key)
    THEN LET dual_criteria == get_metric_duplicates(cfg)
         IN  [i \in DOMAIN dual_criteria |->
                action_row_data(cfg, output_mode, monitor, location, metric_key,
                                stats, dual_criteria[i], evaluation)]
  ELSE << row_data(cfg, output_mode, monitor, location, metric_key, stats,
                   evaluation) >>

\* main: the rows one metric result with data points adds to all_metrics_data.
metric_rows(cfg, output_mode, monitor, location, metric_key, stats, eval_value, evaluation, actual_time_unit) ==
  IF Contains("actionDuration", metric_key)
    THEN LET dual_criteria == get_metric_duplicates(cfg)
         IN  [i \in DOMAIN dual_criteria |->
                action_row_data(cfg, output_mode, monitor, location, metric_key,
                                stats, dual_criteria[i],
                                criteria_evaluation(cfg, dual_criteria[i],
                                                    eval_value, actual_time_unit))]
  ELSE << row_data(cfg, output_mode, monitor, location, metric_key, stats,
                   evaluation) >>

(***************************************************************************)
(* helpers.py: MetricsDataFrame and export_to_csv.  A DataFrame is the     *)
(* sequence of its rows, each a record from column label to cell; a blank  *)
(* cell of a column that also holds numbers is Txt("").                    *)
(***************************************************************************)
\* The full-width markers U+FF08 1 U+FF09 and U+FF08 2 U+FF09 that
\* format_for_evaluation_export_excel searches for.  The strings of the
\* module are ASCII: braces stand for the full-width parentheses.
FullWidth1 == "{1}"
FullWidth2 == "{2}"

\* The characters of the strings of the model, in code-point order.
Alphabet ==
  " ()*-.0123456789:ABCDEFGHIJKLMNOPQRSTUVWXYZ_abcdefghijklmnopqrstuvwxyz{}"

CodePoint ==
  [c \in {SubSeq(Alphabet, i, i) : i \in 1..Len(Alphabet)} |->
     CHOOSE i \in 1..Len(Alphabet) : SubSeq(Alphabet, i, i) = c]

\* Python: a < b on str
RECURSIVE StrLt(_, _)
StrLt(a, b) ==
  IF Len(b) = 0 THEN FALSE
  ELSE IF Len(a) = 0 THEN TRUE
  ELSE IF SubSeq(a, 1, 1) = SubSeq(b, 1, 1)
    THEN StrLt(SubSeq(a, 2, Len(a)), SubSeq(b, 2, Len(b)))
  ELSE CodePoint[SubSeq(a, 1, 1)] < CodePoint[SubSeq(b, 1, 1)]

\* Python: s.replace(old, new), for a non-empty old
RECURSIVE Replace(_, _, _)
Replace(s, old, new) ==
  IF Len(s) < Len(old) THEN s
  ELSE IF SubSeq(s, 1, Len(old)) = old
    THEN new \o Replace(SubSeq(s, Len(old) + 1, Len(s)), old, new)
  ELSE SubSeq(s, 1, 1) \o Replace(SubSeq(s, 2, Len(s)), old, new)

\* Python: s.split(':')[0] if ':' in s else s
BeforeColon(s) ==
  IF FirstColon(s) = 0 THEN s ELSE SubSeq(s, 1, FirstColon(s) - 1)

\* The columns of a DataFrame built from rows.
ColumnsOf(df) == IF Len(df) = 0 THEN {} ELSE DOMAIN df[1]

\* MetricsDataFrame._adjust_metric_description
adjust_metric_description(description, time_unit) ==
  IF time_unit = "s"
    THEN Replace(Replace(description, "{ms}", "{s}"), "(ms)", "(s)")
  ELSE description

\* MetricsDataFrame.convert_units: the monitoring interval in hours, and the
\* unit note of the description.
convert_units(df, time_unit) ==
  [i \in DOMAIN df |->
     [k \in DOMAIN df[i] |->
        IF k = "frequency" THEN Round(Rat(df[i][k], 60), 2)
        ELSE IF k = "metric_description" /\ time_unit = "s"
          THEN adjust_metric_description(df[i][k], time_unit)
        ELSE df[i][k]]]

\* The order of two sort keys: a key is the sequence of the row's cells
\* in the sort columns, a number N(i) or a string Txt(s); lexicographic.
RECURSIVE KeyLt(_, _)
KeyLt(a, b) ==
  IF Len(a) = 0 THEN FALSE
  ELSE IF a[1] = b[1] THEN KeyLt(Tail(a), Tail(b))
  ELSE IF IsNumeric(a[1]) THEN a[1].num < b[1].num
  ELSE StrLt(a[1].text, b[1].text)

\* DataFrame.sort_values on several columns: a stable sort.  keyed is a
\* sequence of [key, row].
RECURSIVE InsertKeyed(_, _)
InsertKeyed(x, sorted) ==
  IF Len(sorted) = 0 THEN <<x>>
  ELSE IF KeyLt(x.key, sorted[1].key) THEN <<x>> \o sorted
  ELSE <<sorted[1]>> \o InsertKeyed(x, Tail(sorted))

RECURSIVE SortKeyed(_)
SortKeyed(keyed) ==
  IF Len(keyed) = 0 THEN <<>>
  ELSE InsertKeyed(keyed[Len(keyed)], SortKeyed(SubSeq(keyed, 1, Len(keyed) - 1)))

sort_values(keyed) ==
  LET sorted == SortKeyed(keyed)
  IN  [i \in DOMAIN sorted |-> sorted[i].row]

\* sort_by_monitor's get_category_order and get_metric_order on a metric name
category_order_of(cfg, name) ==
  category_rank(cfg, get_metric_category(cfg, name))

metric_order_of(cfg, name) ==
  metric_rank(cfg, get_metric_category(cfg, name), name)

\* The sort key of a row in sort_by_monitor, Evaluation and Raw branch
evaluation_sort_key(cfg, row) ==
  <<N(category_order_of(cfg, BeforeColon(row.metric_full_name))),
    N(metric_order_of(cfg, BeforeColon(row.metric_full_name)))>>

raw_sort_key_without_location(cfg, row) ==
  <<Txt(row.monitor_name), N(category_order_of(cfg, row.metric_name)),
    N(metric_order_of(cfg, row.metric_name))>>

raw_sort_key(cfg, row) ==
  <<Txt(row.monitor_name), N(category_order_of(cfg, row.metric_name)),
    N(metric_order_of(cfg, row.metric_name)), Txt(row.location)>>

\* MetricsDataFrame.sort_by_monitor
sort_by_monitor(cfg, df) ==
  IF "metric_full_name" \in ColumnsOf(df)
    THEN sort_values([i \in DOMAIN df |->
                        [key |-> evaluation_sort_key(cfg, df[i]), row |-> df[i]]])
  ELSE sort_values([i \in DOMAIN df |->
                      [key |-> raw_sort_key(cfg, df[i]), row |-> df[i]]])

\* df[column] = value on one row
SetColumn(row, column, value) ==
  [c \in DOMAIN row \cup {column} |-> IF c = column THEN value ELSE row[c]]

\* df.rename(columns={col['key']: col['display_name'] for col in columns}):
\* the label a column of the rows has after the renaming.
renamed(columns, key) ==
  IF \E i \in DOMAIN columns : columns[i].key = key
    THEN columns[CHOOSE i \in DOMAIN columns :
                   /\ columns[i].key = key
                   /\ \A j \in DOMAIN columns : columns[j].key = key => j <= i
                ].display_name
  ELSE key

\* The renaming and df[display_names] of the three formatters: a table of
\* the schema's labels in the schema's order, or KeyError when a label is
\* not a column of the renamed frame.
project(df, columns) ==
  LET ordered == SortedByOrder(columns)
      display_names == [i \in DOMAIN ordered |-> ordered[i].display_name]
      labels == {renamed(columns, k) : k \in ColumnsOf(df)}
  IN  IF \E i \in DOMAIN display_names : display_names[i] \notin labels
        THEN Raise("KeyError")
      ELSE [columns |-> display_names,
            rows |-> [r \in DOMAIN df |->
                        [d \in {display_names[i] : i \in DOMAIN display_names} |->
                           df[r][CHOOSE k \in ColumnsOf(df) :
                                   renamed(columns, k) = d]]]]

\* MetricsDataFrame.format_for_export
format_for_export(cfg, df) == project(df, get_csv_columns(cfg))

\* df['index'] = range(1, len(df) + 1)
with_index(df) == [i \in DOMAIN df |-> SetColumn(df[i], "index", i)]

\* MetricsDataFrame.format_for_evaluation_export
format_for_evaluation_export(cfg, df) ==
  project(with_index(df), get_csv_columns_evaluation(cfg))

\* format_for_evaluation_export_excel: the metric a row's full name stands
\* for.  The pattern ^(builtin:synthetic\.browser\.[^:]+) matches the prefix
\* and at least one character other than a colon.
BrowserPrefix == "builtin:synthetic.browser."

excel_metric_name(metric_full_name) ==
  IF StartsWith(metric_full_name, "builtin:")
    THEN IF \/ Contains(FullWidth1, metric_full_name)
            \/ Contains(FullWidth2, metric_full_name)
           THEN "builtin:synthetic.browser.actionDuration.load"
         ELSE IF /\ StartsWith(metric_full_name, BrowserPrefix)
                 /\ Len(metric_full_name) > Len(BrowserPrefix)
                 /\ SubSeq(metric_full_name, Len(BrowserPrefix) + 1,
                           Len(BrowserPrefix) + 1) # ":"
           THEN BrowserPrefix \o
                BeforeColon(SubSeq(metric_full_name, Len(BrowserPrefix) + 1,
                                   Len(metric_full_name)))
         ELSE BeforeColon(metric_full_name)
  ELSE BeforeColon(metric_full_name)

\* format_for_evaluation_export_excel: the blank column of every mapped
\* metric, and the row's average in the column of the row's metric.
scatter_row(row, mapping) ==
  LET column_keys == {mapping[m] : m \in DOMAIN mapping}
      blank == [c \in DOMAIN row \cup column_keys |->
                  IF c \in column_keys THEN Txt("") ELSE row[c]]
      metric_name ==
        IF "metric_full_name" \in column_keys THEN ""
        ELSE IF "metric_full_name" \in DOMAIN row
          THEN excel_metric_name(row.metric_full_name)
        ELSE row.metric_name
      target_column == Get(mapping, metric_name, "")
  IN  IF target_column # "" /\ ~IsNone(blank.avg) /\ blank.avg # Txt("")
        THEN [blank EXCEPT ![target_column] = blank.avg]
      ELSE blank

\* get_excel_sort_order: the order of the first pattern the name contains
get_excel_sort_order(excel_order, metric_full_name) ==
  LET Matches(i) ==
        Contains(Get(excel_order[i], "metric_pattern", ""), metric_full_name)
  IN  IF \E i \in DOMAIN excel_order : Matches(i)
        THEN Get(excel_order[CHOOSE i \in DOMAIN excel_order :
                               /\ Matches(i)
                               /\ \A j \in 1..(i - 1) : ~Matches(j)],
                 "order", LastRank)
      ELSE LastRank

excel_sort_key(excel_order, row) ==
  <<Txt(row.monitor_name),
    N(get_excel_sort_order(excel_order, row.metric_full_name))>>

\* MetricsDataFrame.format_for_evaluation_export_excel
format_for_evaluation_export_excel(cfg, df) ==
  LET mapping == get_excel_metric_column_mapping(cfg)
      scattered == [i \in DOMAIN df |-> scatter_row(with_index(df)[i], mapping)]
      excel_order == get_excel_metric_order(cfg)
      columns == get_csv_columns_evaluation_excel(cfg)
  IN  IF Len(excel_order) = 0 THEN project(scattered, columns)
      ELSE IF {"metric_full_name", "monitor_name"} \subseteq ColumnsOf(scattered)
        THEN project(sort_values([i \in DOMAIN scattered |->
                                    [key |-> excel_sort_key(excel_order,
                                                            scattered[i]),
                                     row |-> scattered[i]]]),
                     columns)
      ELSE Raise("KeyError")

\* MetricsDataFrame._create_dataframe: an empty list of rows is rejected.
create_dataframe(metrics_data) ==
  IF Len(metrics_data) = 0 THEN Raise("ValueError") ELSE metrics_data

\* export_to_csv, for metrics_data that is not empty: the table written to
\* the file, or the exception raised.
export_to_csv(cfg, metrics_data, time_unit, output_mode) ==
  LET df == create_dataframe(metrics_data)
  IN  IF Len(metrics_data) = 0 THEN df
      ELSE IF is_evaluation_mode(output_mode)
        THEN IF is_excel_format_enabled(cfg) /\ get_excel_format_mode(cfg) = "excel"
               THEN format_for_evaluation_export_excel(
                      cfg, convert_units(df, time_unit))
             ELSE format_for_evaluation_export(
                    cfg, sort_by_monitor(cfg, convert_units(df, time_unit)))
      ELSE format_for_export(
             cfg, sort_by_monitor(cfg, convert_units(df, time_unit)))

(***************************************************************************)
(* helpers.py: parse_date_range.                                           *)
(***************************************************************************)
\* re.match(r"^\d{8}$", s), for the strings of the model
IsEightDigits(s) ==
  /\ Len(s) = 8
  /\ \A i \in 1..8 : \E d \in 1..10 : SubSeq(s, i, i) = SubSeq("0123456789", d, d)

\* int(s) of a string of digits
RECURSIVE ToInt(_)
ToInt(s) ==
  IF Len(s) = 0 THEN 0
  ELSE ToInt(SubSeq(s, 1, Len(s) - 1)) * 10
         + (CodePoint[SubSeq(s, Len(s), Len(s))] - CodePoint["0"])

\* The number n in decimal, zero-padded to width digits (strftime's %Y, %m, %d).
RECURSIVE zfill(_, _)
zfill(n, width) ==
  IF width = 0 THEN ""
  ELSE zfill(n \div 10, width - 1) \o SubSeq("0123456789", (n % 10) + 1, (n % 10) + 1)

\* The number of days of a month of the proleptic Gregorian calendar.
days_in_month(year, month) ==
  IF month = 2
    THEN (IF year % 4 = 0 /\ (year % 100 # 0 \/ year % 400 = 0) THEN 29 ELSE 28)
  ELSE IF month \in {4, 6, 9, 11} THEN 30
  ELSE 31

\* datetime.strptime(s, "%Y%m%d") of eight digits: the date, or ValueError
\* when the month, the day or the year is out of range.
strptime(s) ==
  LET year == ToInt(SubSeq(s, 1, 4))
      month == ToInt(SubSeq(s, 5, 6))
      day == ToInt(SubSeq(s, 7, 8))
  IN  IF year < 1 \/ month \notin 1..12 THEN Raise("ValueError")
      ELSE IF day \notin 1..days_in_month(year, month) THEN Raise("ValueError")
      ELSE [year |-> year, month |-> month, day |-> day]

\* parse_date_range without the comparison of the two dates.
parse_date_range_unordered(start_date_str, end_date_str) ==
  IF ~IsEightDigits(start_date_str) \/ ~IsEightDigits(end_date_str)
    THEN Raise("ValueError")
  ELSE
    LET start_date_naive == strptime(start_date_str)
        end_date_naive == strptime(end_date_str)
    IN  IF IsRaise(start_date_naive) \/ IsRaise(end_date_naive)
          THEN Raise("ValueError")
        ELSE [start_iso |-> start_date_str, end_iso |-> end_date_str]

\* parse_date_range: the start of the first day and the end of the last day
\* in JST (UTC+9), as UTC timestamps; ValueError for a malformed range.  The
\* start of 0001-01-01 JST lies before the first UTC day: OverflowError.
parse_date_range(start_date_str, end_date_str) ==
  IF ~IsEightDigits(start_date_str) \/ ~IsEightDigits(end_date_str)
    THEN Raise("ValueError")
  ELSE
    LET start_date_naive == strptime(start_date_str)
        end_date_naive == strptime(end_date_str)
        later(a, b) ==
          \/ a.year > b.year
          \/ a.year = b.year /\ a.month > b.month
          \/ a.year = b.year /\ a.month = b.month /\ a.day > b.day
        day_before(a) ==
          IF a.day > 1 THEN [a EXCEPT !.day = a.day - 1]
          ELSE IF a.month > 1
            THEN [a EXCEPT !.month = a.month - 1,
                           !.day = days_in_month(a.year, a.month - 1)]
          ELSE [year |-> a.year - 1, month |-> 12, day |-> 31]
        iso(a) == zfill(a.year, 4) \o "-" \o zfill(a.month, 2) \o "-"
                    \o zfill(a.day, 2)
    IN  IF IsRaise(start_date_naive) \/ IsRaise(end_date_naive)
          THEN Raise("ValueError")
        ELSE IF later(start_date_naive, end_date_naive) THEN Raise("ValueError")
        ELSE IF day_before(start_date_naive).year < 1 THEN Raise("OverflowError")
        ELSE [start_iso |-> iso(day_before(start_date_naive)) \o "T15:00:00Z",
              end_iso |-> iso(end_date_naive) \o "T14:59:59Z"]

\* The --start and --end arguments of the runs: one well-formed range, and
\* ranges with a date that is not eight digits, with a date that is no
\* calendar date, with the start after the end, and with the first day of
\* year 1.
DateArgs ==
  { <<"20240301", "20250101">>,
    <<"2025011", "20250131">>, <<"20250101", "202501311">>,
    <<"2025-1-1", "20250131">>, <<"", "20250131">>,
    <<"20250230", "20250301">>, <<"20250229", "20250301">>,
    <<"20250101", "20251301">>, <<"20250100", "20250131">>,
    <<"00000101", "20250101">>,
    <<"20250201", "20250101">>, <<"20250102", "20250101">>,
    <<"00010101", "20250101">> }

(***************************************************************************)
(* Inputs: the monitors and the API's metric results.                      *)
(***************************************************************************)
\* get_synthetic_monitors: the monitors of the tenant.
Monitors ==
  << [entityId |-> "SYNTHETIC_TEST-2", name |-> "shop", frequencyMin |-> 15,
      tags |-> <<[key |-> "env", value |-> "prod"]>>,
      locations |-> <<[entityId |-> "GEOLOCATION-1", name |-> "Tokyo"],
                      [entityId |-> "GEOLOCATION-2", name |-> "Osaka"]>>,
      script |-> [configuration |-> [device |-> [deviceName |-> "Desktop"]]]],
     [entityId |-> "SYNTHETIC_TEST-1", name |-> "blog", frequencyMin |-> 60,
      tags |-> <<>>,
      locations |-> <<[entityId |-> "GEOLOCATION-1", name |-> "Tokyo"]>>,
      script |-> [configuration |-> [device |-> [deviceName |-> "Mobile"]]]] >>

\* The metricId the API reports for a catalog metric: the selector it was
\* asked for, or the bare key after the retry without aggregation.
ApiMetricIds(metric) ==
  { metric_selector(metric.key, Get(metric, "aggregation", "")), metric.key }

\* The value lists the API reports for a catalog metric (null marks a slot
\* without a measurement).
ApiValues(metric) ==
  IF metric.key = K_actionDuration
    THEN { <<N(300)>>, <<N(50), PyNone, N(100), N(300)>> }
  ELSE IF metric.key = K_visuallyComplete THEN { <<N(200)>>, <<PyNone>> }
  ELSE IF metric.key = K_cls THEN { <<N(0)>> }
  ELSE IF metric.key = K_availability
    THEN { <<N(99)>>, <<N(90), N(95), N(100)>> }
  ELSE { <<N(1), N(2)>> }

(***************************************************************************)
(* The state.                                                              *)
(***************************************************************************)
VARIABLES
  file,              \* the state of config/metrics.yaml
  config,            \* Config.config
  args,              \* the command line: time_unit, output_mode
  pc,                \* where the run is: start, collect, export, done; call
  mon_idx, loc_idx,  \* the monitor and the location being processed
  cat_idx,           \* the catalog metric whose result was processed last
  processed,         \* metric results processed so far
  all_metrics_data,  \* main: the rows collected so far
  last,              \* the values main computed for the last metric result
  exit_code,         \* main's return value, -1 while it runs
  call,              \* a direct call of calculate_statistics: its arguments
  ret,               \* ... and what it returned or raised
  sources,           \* the catalog key and the monitor each collected row was built from
  failure,           \* the exception that ended the collection or the export
  exported           \* the table export_to_csv wrote

vars == << file, config, args, pc, mon_idx, loc_idx, cat_idx, processed,
           all_metrics_data, last, exit_code, call, ret, sources, failure,
           exported >>

Pending == [pending |-> TRUE]
NoCall == [fn |-> "none"]
NoLast == [none |-> TRUE]
NoFailure == [none |-> TRUE]
\* The exception main's handler caught, and the stage that raised it.
Caught(exception, stage) == [raised |-> exception.raised, stage |-> stage]
NotExported == [none |-> TRUE]

ArgsSet ==
  { [time_unit |-> time_unit, output_mode |-> output_mode,
     start |-> dates[1], end |-> dates[2]] :
      time_unit \in {"ms", "s"}, output_mode \in {"raw", "evaluation"},
      dates \in DateArgs }

(***************************************************************************)
(* main.                                                                   *)
(***************************************************************************)
Init ==
  /\ file \in ConfigFiles
  /\ config = EmptyDict
  /\ args \in ArgsSet
  /\ pc = "start"
  /\ mon_idx = 0 /\ loc_idx = 0 /\ cat_idx = 0
  /\ processed = 0
  /\ all_metrics_data = <<>>
  /\ last = NoLast
  /\ exit_code = -1
  /\ call = NoCall
  /\ ret = Pending
  /\ sources = <<>>
  /\ failure = NoFailure
  /\ exported = NotExported

\* DynatraceClient.__init__: Config() and
\* min_request_interval = get_default('api', 'request_interval') / 1000.
\* TRUE when the constructor returns, FALSE when it raises.
client_init_ok(cfg) ==
  LET request_interval == get_default(cfg, "api", "request_interval")
  IN  ~IsRaise(request_interval) /\ ~IsNone(request_interval)

\* main up to the monitor loop: the client is built (loading the
\* configuration), the date range is parsed and the monitors are fetched.
\* An exception of the constructor or of parse_date_range ends main with
\* exit status 1.
Start ==
  /\ pc = "start"
  /\ config' = load_config(file)
  /\ \E range \in {parse_date_range(args.start, args.end)} :
       IF ~client_init_ok(load_config(file))
         THEN /\ pc' = "done"
              /\ exit_code' = 1
              /\ UNCHANGED << mon_idx, loc_idx, cat_idx, failure >>
       ELSE IF IsRaise(range)
         THEN /\ pc' = "done"
              /\ exit_code' = 1
              /\ failure' = Caught(range, "dates")
              /\ UNCHANGED << mon_idx, loc_idx, cat_idx >>
       ELSE IF Len(Monitors) = 0
         THEN /\ pc' = "done"
              /\ exit_code' = 1
              /\ UNCHANGED << mon_idx, loc_idx, cat_idx, failure >>
       ELSE /\ pc' = "collect"
            /\ mon_idx' = 1 /\ loc_idx' = 1 /\ cat_idx' = 0
            /\ UNCHANGED << exit_code, failure >>
  /\ UNCHANGED << file, args, processed, all_metrics_data, last, call, ret,
                  sources, exported >>

\* One iteration of "for metric in metrics": the result for catalog metric k,
\* reported under metric_key_raw with the given values.  An exception raised
\* in the iteration leaves the loop and ends main with exit status 1.
ProcessMetric(k, metric_key_raw, values) ==
  /\ pc = "collect"
  /\ processed < MaxMetrics
  /\ \E metric_key \in {normalize_metric_key(metric_key_raw)},
        data_points \in {NonNull(values)} :
       IF Len(data_points) = 0
         THEN UNCHANGED << pc, all_metrics_data, last, exit_code, sources,
                           failure >>
       ELSE
         \E stats \in {calculate_statistics(config, data_points, metric_key,
                                            args.time_unit)} :
           IF IsRaise(stats)
             THEN /\ pc' = "done"
                  /\ exit_code' = 1
                  /\ failure' = Caught(stats, "collect")
                  /\ UNCHANGED << all_metrics_data, last, sources >>
           ELSE
             \E eval_value \in {Get(stats, get_evaluation_value_type(config),
                                    stats.avg)} :
               \E evaluation \in {evaluate_metric(config, metric_key, eval_value,
                                                  args.time_unit)} :
                 \E rows \in {metric_rows(config, args.output_mode,
                                          Monitors[mon_idx],
                                          Monitors[mon_idx].locations[loc_idx],
                                          metric_key, stats, eval_value,
                                          evaluation, args.time_unit)} :
                   /\ all_metrics_data' = all_metrics_data \o rows
                   /\ sources' = sources \o
                        [i \in DOMAIN rows |->
                           [metric |-> get_metrics(config)[k].key,
                            monitor |-> Monitors[mon_idx].name]]
                   /\ last' = [monitor |-> Monitors[mon_idx],
                               location |-> Monitors[mon_idx].locations[loc_idx],
                               metric_key_raw |-> metric_key_raw,
                               metric_key |-> metric_key,
                               data_points |-> data_points,
                               stats |-> stats,
                               eval_value |-> eval_value,
                               evaluation |-> evaluation,
                               rows |-> rows]
                   /\ UNCHANGED << pc, exit_code, failure >>
  /\ cat_idx' = k
  /\ processed' = processed + 1
  /\ UNCHANGED << file, config, args, mon_idx, loc_idx, call, ret, exported >>

\* The end of the metric results of one location: the next location, the
\* next monitor, or the end of the monitor loop.
NextLocation ==
  /\ pc = "collect"
  /\ cat_idx' = 0
  /\ IF loc_idx < Len(Monitors[mon_idx].locations)
       THEN /\ loc_idx' = loc_idx + 1
            /\ UNCHANGED << mon_idx, pc >>
       ELSE IF mon_idx < Len(Monitors)
         THEN /\ mon_idx' = mon_idx + 1
              /\ loc_idx' = 1
              /\ UNCHANGED pc
         ELSE /\ pc' = "export"
              /\ UNCHANGED << mon_idx, loc_idx >>
  /\ UNCHANGED << file, config, args, processed, all_metrics_data, last,
                  exit_code, call, ret, sources, failure, exported >>

\* main after the loop: nothing collected is exit status 1; otherwise
\* export_to_csv builds its own Config() and writes the table, and an
\* exception it raises ends main with exit status 1.
Finish ==
  /\ pc = "export"
  /\ pc' = "done"
  /\ IF Len(all_metrics_data) = 0
       THEN /\ exit_code' = 1
            /\ UNCHANGED << failure, exported >>
       ELSE \E csv \in {export_to_csv(load_config(file), all_metrics_data,
                                      args.time_unit, args.output_mode)} :
              IF IsRaise(csv)
                THEN /\ exit_code' = 1
                     /\ failure' = Caught(csv, "export")
                     /\ UNCHANGED exported
              ELSE /\ exit_code' = 0
                   /\ exported' = csv
                   /\ UNCHANGED failure
  /\ UNCHANGED << file, config, args, mon_idx, loc_idx, cat_idx, processed,
                  all_metrics_data, last, call, ret, sources >>

Step ==
  \E k \in 1..Len(get_metrics(config)) :
    /\ k > cat_idx
    /\ \E metric_key_raw \in ApiMetricIds(get_metrics(config)[k]) :
         \E values \in ApiValues(get_metrics(config)[k]) :
           ProcessMetric(k, metric_key_raw, values)

Next == Start \/ Step \/ NextLocation \/ Finish

Spec == Init /\ [][Next]_vars

(***************************************************************************)
(* calculate_statistics, called directly.                                  *)
(***************************************************************************)
\* The sample values of the direct calls: milliseconds, and small scores for
\* the layout-shift metric.
SampleValues(metric_key) ==
  IF Contains("cumulativeLayoutShift", metric_key) THEN {0, 1, 2}
  ELSE {100, 200, 300, 400}

RECURSIVE SeqsUpTo(_, _)
SeqsUpTo(S, n) ==
  IF n = 0 THEN {<<>>}
  ELSE LET shorter == SeqsUpTo(S, n - 1)
       IN  shorter \cup {Append(q, e) : q \in shorter, e \in S}

\* The sample lists: every list of up to MaxLen numbers, and two lists that
\* hold a value that is no number.
SampleLists(metric_key) ==
  {[i \in DOMAIN q |-> N(q[i])] : q \in SeqsUpTo(SampleValues(metric_key), MaxLen)}
    \cup {<<Txt("n/a")>>, <<N(100), Txt("n/a")>>}

StatKeys == {K_actionDuration, K_cls, K_availability, K_success, K_total,
             K_eventFailure}

InitStats ==
  /\ file \in {f \in ConfigFiles : client_init_ok(load_config(f))}
  /\ config = load_config(file)
  /\ args \in {a \in ArgsSet : a.output_mode = "raw"
                               /\ ~IsRaise(parse_date_range(a.start, a.end))}
  /\ pc = "call"
  /\ mon_idx = 0 /\ loc_idx = 0 /\ cat_idx = 0
  /\ processed = 0
  /\ all_metrics_data = <<>>
  /\ last = NoLast
  /\ exit_code = -1
  /\ \E metric_key \in StatKeys :
       \E values \in SampleLists(metric_key) :
         call = [fn |-> "calculate_statistics", values |-> values,
                 metric_key |-> metric_key, time_unit |-> args.time_unit]
  /\ ret = Pending
  /\ sources = <<>>
  /\ failure = NoFailure
  /\ exported = NotExported

CallCalculateStatistics ==
  /\ pc = "call"
  /\ ret = Pending
  /\ call.fn = "calculate_statistics"
  /\ ret' = calculate_statistics(config, call.values, call.metric_key,
                                 call.time_unit)
  /\ UNCHANGED << file, config, args, pc, mon_idx, loc_idx, cat_idx, processed,
                  all_metrics_data, last, exit_code, call, sources, failure,
                  exported >>

NextStats == CallCalculateStatistics

SpecStats == InitStats /\ [][NextStats]_vars

(***************************************************************************)
(* calculate_statistics in binary64.  numpy computes the seconds summary   *)
(* in IEEE 754 double precision: every division, addition, multiplication  *)
(* and square root is rounded to 53 significant bits, ties to even.  A     *)
(* double is [neg, m, e] with the value (-1)^neg * m * 2^e; the natural    *)
(* number m is the sequence of its digits in base 2^15, lowest first (the  *)
(* nat_ operators).  Overflow and subnormal numbers are out of the range   *)
(* of the samples.                                                         *)
(***************************************************************************)
\* One operation of binary64 arithmetic: "float", "true_divide", "add",
\* "multiply" and "sqrt", each rounded to the nearest double; "subtract";
\* "less" (x < y, which is that x - y is negative); and "round", the
\* integer nearest to x * 10^y, ties to even, which is the decimal Python's
\* round(x, y) returns.
RECURSIVE float64(_, _, _)
float64(op, x, y) ==
  LET RECURSIVE nat_norm(_)
      nat_norm(a) ==
        IF Len(a) = 0 \/ a[Len(a)] # 0 THEN a
        ELSE nat_norm(SubSeq(a, 1, Len(a) - 1))

      RECURSIVE nat_of(_)
      nat_of(i) == IF i = 0 THEN <<>> ELSE <<i % 32768>> \o nat_of(i \div 32768)

      RECURSIVE nat_int(_)
      nat_int(a) == IF Len(a) = 0 THEN 0 ELSE a[1] + 32768 * nat_int(Tail(a))

      RECURSIVE nat_add(_, _, _)
      nat_add(a, b, carry) ==
        IF Len(a) = 0 /\ Len(b) = 0 THEN (IF carry = 0 THEN <<>> ELSE <<carry>>)
        ELSE IF Len(a) = 0 THEN nat_add(<<0>>, b, carry)
        ELSE IF Len(b) = 0 THEN nat_add(a, <<0>>, carry)
        ELSE <<(a[1] + b[1] + carry) % 32768>>
               \o nat_add(Tail(a), Tail(b), (a[1] + b[1] + carry) \div 32768)

      \* a - b - borrow for a >= b + borrow
      RECURSIVE nat_sub(_, _, _)
      nat_sub(a, b, borrow) ==
        IF Len(a) = 0 THEN <<>>
        ELSE IF Len(b) = 0 THEN nat_sub(a, <<0>>, borrow)
        ELSE IF a[1] - b[1] - borrow < 0
          THEN <<a[1] - b[1] - borrow + 32768>> \o nat_sub(Tail(a), Tail(b), 1)
        ELSE <<a[1] - b[1] - borrow>> \o nat_sub(Tail(a), Tail(b), 0)

      \* -1, 0 or 1 as a < b, a = b or a > b, for a and b without leading zeros
      RECURSIVE nat_cmp(_, _)
      nat_cmp(a, b) ==
        IF Len(a) # Len(b) THEN (IF Len(a) < Len(b) THEN -1 ELSE 1)
        ELSE IF Len(a) = 0 THEN 0
        ELSE IF a[Len(a)] # b[Len(b)]
          THEN (IF a[Len(a)] < b[Len(b)] THEN -1 ELSE 1)
        ELSE nat_cmp(SubSeq(a, 1, Len(a) - 1), SubSeq(b, 1, Len(b) - 1))

      \* a * k + carry for a digit k
      RECURSIVE nat_scale(_, _, _)
      nat_scale(a, k, carry) ==
        IF Len(a) = 0 THEN (IF carry = 0 THEN <<>> ELSE <<carry>>)
        ELSE <<(a[1] * k + carry) % 32768>>
               \o nat_scale(Tail(a), k, (a[1] * k + carry) \div 32768)

      RECURSIVE nat_mul(_, _)
      nat_mul(a, b) ==
        IF Len(a) = 0 \/ Len(b) = 0 THEN <<>>
        ELSE nat_norm(nat_add(nat_scale(a, b[1], 0), <<0>> \o nat_mul(a, Tail(b)), 0))

      \* quotient q and rest r of a by k in 1..65535
      RECURSIVE nat_divmod(_, _)
      nat_divmod(a, k) ==
        IF Len(a) = 0 THEN [q |-> <<>>, r |-> 0]
        ELSE LET hi == nat_divmod(Tail(a), k)
             IN  [q |-> <<(hi.r * 32768 + a[1]) \div k>> \o hi.q,
                  r |-> (hi.r * 32768 + a[1]) % k]

      \* the number of binary digits of a
      nat_bits(a) ==
        IF Len(a) = 0 THEN 0
        ELSE 15 * (Len(a) - 1)
               + (CHOOSE n \in 1..15 : 2^(n - 1) <= a[Len(a)] /\ a[Len(a)] < 2^n)

      \* a * 2^s
      nat_shl(a, s) ==
        IF Len(a) = 0 THEN <<>>
        ELSE [i \in 1..(s \div 15) |-> 0] \o nat_scale(a, 2^(s % 15), 0)

      \* floor(a / 2^s)
      nat_shr(a, s) ==
        nat_norm(nat_divmod(SubSeq(a, (s \div 15) + 1, Len(a)), 2^(s % 15)).q)

      \* floor(sqrt(a)), one binary digit a step from digit i down
      RECURSIVE nat_sqrt(_, _, _)
      nat_sqrt(a, root, i) ==
        IF i < 0 THEN root
        ELSE LET larger == nat_add(root, nat_shl(<<1>>, i), 0)
             IN  IF nat_cmp(nat_mul(larger, larger), a) <= 0
                   THEN nat_sqrt(a, larger, i - 1)
                 ELSE nat_sqrt(a, root, i - 1)

      \* floor(a / 2^s) rounded to the nearest: up when the rest is above the
      \* half, or is the half and the floor is odd or more digits follow
      \* (sticky)
      nat_nearest(a, s, sticky) ==
        LET floor == nat_shr(a, s)
            half == nat_cmp(nat_norm(nat_sub(a, nat_shl(floor, s), 0)),
                            nat_shl(<<1>>, s - 1))
            odd == Len(floor) > 0 /\ floor[1] % 2 = 1
        IN  IF half > 0 \/ (half = 0 /\ (sticky \/ odd))
              THEN nat_add(floor, <<1>>, 0)
            ELSE floor

      \* The exact result [neg, m, e, sticky] of the operation, before it
      \* is rounded; sticky tells that digits below m were dropped.  "float"
      \* is the integer x >= 0, "true_divide" is x / y for an integer y in
      \* 1..65535; the radicand of "sqrt" is taken with 110 or 111 digits at
      \* an even exponent.
      exact ==
        CASE op = "float" ->
               [neg |-> FALSE, m |-> nat_of(x), e |-> 0, sticky |-> FALSE]
          [] op = "true_divide" ->
               LET division == nat_divmod(nat_shl(x.m, 75), y)
               IN  [neg |-> x.neg, m |-> nat_norm(division.q), e |-> x.e - 75,
                    sticky |-> division.r # 0]
          [] op = "add" ->
               LET e == IF x.e < y.e THEN x.e ELSE y.e
                   left == nat_shl(x.m, x.e - e)
                   right == nat_shl(y.m, y.e - e)
               IN  IF x.neg = y.neg
                     THEN [neg |-> x.neg, m |-> nat_add(left, right, 0), e |-> e,
                           sticky |-> FALSE]
                   ELSE IF nat_cmp(left, right) > 0
                     THEN [neg |-> x.neg, m |-> nat_norm(nat_sub(left, right, 0)),
                           e |-> e, sticky |-> FALSE]
                   ELSE [neg |-> y.neg, m |-> nat_norm(nat_sub(right, left, 0)),
                         e |-> e, sticky |-> FALSE]
          [] op = "multiply" ->
               [neg |-> x.neg # y.neg, m |-> nat_mul(x.m, y.m), e |-> x.e + y.e,
                sticky |-> FALSE]
          [] op = "sqrt" ->
               LET shift == IF (x.e - (110 - nat_bits(x.m))) % 2 = 0
                              THEN 110 - nat_bits(x.m)
                            ELSE 111 - nat_bits(x.m)
                   square == nat_shl(x.m, shift)
                   r == nat_sqrt(square, <<>>, (nat_bits(square) + 1) \div 2)
               IN  [neg |-> FALSE, m |-> r, e |-> (x.e - shift) \div 2,
                    sticky |-> nat_cmp(nat_mul(r, r), square) # 0]

      \* The double nearest to the exact result r: r.m rounded to 53 digits.
      to_double(r) ==
        IF Len(r.m) = 0 THEN [neg |-> FALSE, m |-> <<>>, e |-> 0]
        ELSE IF nat_bits(r.m) <= 53 THEN [neg |-> r.neg, m |-> r.m, e |-> r.e]
        ELSE [neg |-> r.neg,
              m |-> nat_nearest(r.m, nat_bits(r.m) - 53, r.sticky),
              e |-> r.e + nat_bits(r.m) - 53]
  IN  CASE op = "subtract" -> float64("add", x, [y EXCEPT !.neg = ~y.neg])
        [] op = "less" -> float64("subtract", x, y).neg
        [] op = "round" ->
             (IF x.neg THEN -1 ELSE 1)
               * nat_int(IF x.e >= 0 THEN nat_shl(nat_scale(x.m, 10^y, 0), x.e)
                         ELSE nat_nearest(nat_scale(x.m, 10^y, 0), -x.e, FALSE))
        [] OTHER -> to_double(exact)

\* calculate_statistics: the five numpy reductions of an array of doubles.
\* np.mean and np.std add the elements from the first to the last and
\* divide; np.std is the square root of the mean of the squared deviations;
\* np.median is the middle element of the sorted array, or the mean of the
\* two.
np_stats_f64(values_array) ==
  LET RECURSIVE total(_)
      total(a) ==
        IF Len(a) = 0 THEN float64("float", 0, 0)
        ELSE float64("add", total(SubSeq(a, 1, Len(a) - 1)), a[Len(a)])
      mean(a) == float64("true_divide", total(a), Len(a))
      RECURSIVE insert(_, _)
      insert(a, v) ==
        IF Len(a) = 0 THEN <<v>>
        ELSE IF float64("less", v, a[1]) THEN <<v>> \o a
        ELSE <<a[1]>> \o insert(Tail(a), v)
      RECURSIVE sort(_)
      sort(a) ==
        IF Len(a) = 0 THEN <<>>
        ELSE insert(sort(SubSeq(a, 1, Len(a) - 1)), a[Len(a)])
      square(d) == float64("multiply", d, d)
      stats(n, sorted, centre) ==
        [min |-> sorted[1], max |-> sorted[n], avg |-> centre,
         median |-> IF n % 2 = 1 THEN sorted[(n + 1) \div 2]
                    ELSE mean(<<sorted[n \div 2], sorted[n \div 2 + 1]>>),
         stdev |-> float64("sqrt",
                     mean([i \in 1..n |->
                             square(float64("subtract", values_array[i], centre))]),
                     0)]
  IN  stats(Len(values_array), sort(values_array), mean(values_array))

\* DynatraceClient.calculate_statistics with the seconds summary of a Time
\* metric computed as numpy and round() compute it; the other summaries
\* hold no division of the samples and are those of calculate_statistics.
calculate_statistics_f64(cfg, values, metric_key, time_unit) ==
  IF \/ IsRaise(default_stats_value(cfg))
     \/ Len(values) = 0 \/ ~AllNumeric(values)
     \/ metric_key \in SumKeys
     \/ ~(is_time_metric(cfg, metric_key) /\ time_unit = "s")
    THEN calculate_statistics(cfg, values, metric_key, time_unit)
  ELSE
    LET round2(stats) ==
          [k \in DOMAIN stats |-> Rat(float64("round", stats[k], 2), 100)]
    IN  round2(np_stats_f64([i \in DOMAIN values |->
          float64("true_divide", float64("float", values[i].num, 0), 1000)]))

(***************************************************************************)
(* calculate_statistics in double precision, called directly.              *)
(***************************************************************************)
\* The direct calls in double precision: every list of up to MaxLen samples
\* of 45, 195 or 300 milliseconds, for a Time metric and a ratio metric.
InitFloat ==
  /\ file \in {f \in ConfigFiles : client_init_ok(load_config(f))}
  /\ config = load_config(file)
  /\ args \in {a \in ArgsSet : a.output_mode = "raw"
                               /\ ~IsRaise(parse_date_range(a.start, a.end))}
  /\ pc = "call"
  /\ mon_idx = 0 /\ loc_idx = 0 /\ cat_idx = 0
  /\ processed = 0
  /\ all_metrics_data = <<>>
  /\ last = NoLast
  /\ exit_code = -1
  /\ \E metric_key \in {K_actionDuration, K_availability} :
       \E q \in SeqsUpTo({45, 195, 300}, MaxLen) :
         call = [fn |-> "calculate_statistics",
                 values |-> [i \in DOMAIN q |-> N(q[i])],
                 metric_key |-> metric_key, time_unit |-> args.time_unit]
  /\ ret = Pending
  /\ sources = <<>>
  /\ failure = NoFailure
  /\ exported = NotExported

CallCalculateStatisticsFloat ==
  /\ pc = "call"
  /\ ret = Pending
  /\ call.fn = "calculate_statistics"
  /\ ret' = calculate_statistics_f64(config, call.values, call.metric_key,
                                     call.time_unit)
  /\ UNCHANGED << file, config, args, pc, mon_idx, loc_idx, cat_idx, processed,
                  all_metrics_data, last, exit_code, call, sources, failure,
                  exported >>

NextFloat == CallCalculateStatisticsFloat

SpecFloat == InitFloat /\ [][NextFloat]_vars

(***************************************************************************)
(* Config.evaluate_metric and main's per-criterion evaluation, called      *)
(* directly.                                                               *)
(***************************************************************************)
K_largestContentfulPaint == "builtin:synthetic.browser.largestContentfulPaint.load"
K_firstByte == "builtin:synthetic.browser.firstByte.load"
K_speedIndex == "builtin:synthetic.browser.speedIndex.load"

EvalKeys == {K_actionDuration, K_visuallyComplete, K_cls, K_availability,
             K_total, K_largestContentfulPaint, K_firstByte, K_speedIndex}

\* The representative values: around every threshold of EvaluationCriteria,
\* in seconds (n/1000) and in milliseconds or percent (n).
EvalValues ==
  {Rat(n, d) : n \in {0, 99, 100, 101, 199, 200, 201, 299, 300, 301},
               d \in {1, 1000}}

\* The criteria main may iterate over: the configured ones, and one without
\* a threshold_key.
SampleCriteria(cfg) ==
  {get_metric_duplicates(cfg)[i] : i \in DOMAIN get_metric_duplicates(cfg)}
    \cup {[display_suffix |-> "(x)", description |-> "no key"]}

InitEval ==
  /\ file \in {f \in ConfigFiles : client_init_ok(load_config(f))}
  /\ config = load_config(file)
  /\ args \in {a \in ArgsSet : a.output_mode = "evaluation"
                               /\ ~IsRaise(parse_date_range(a.start, a.end))}
  /\ pc = "call"
  /\ mon_idx = 0 /\ loc_idx = 0 /\ cat_idx = 0
  /\ processed = 0
  /\ all_metrics_data = <<>>
  /\ last = NoLast
  /\ exit_code = -1
  /\ \E value \in EvalValues :
       \/ \E metric_key \in EvalKeys :
            call = [fn |-> "evaluate_metric", metric_key |-> metric_key,
                    value |-> value, time_unit |-> args.time_unit]
       \/ \E criteria \in SampleCriteria(config) :
            call = [fn |-> "criteria_evaluation", criteria |-> criteria,
                    value |-> value, time_unit |-> args.time_unit]
  /\ ret = Pending
  /\ sources = <<>>
  /\ failure = NoFailure
  /\ exported = NotExported

CallEvaluateMetric ==
  /\ pc = "call"
  /\ ret = Pending
  /\ call.fn = "evaluate_metric"
  /\ ret' = [evaluation |-> evaluate_metric(config, call.metric_key, call.value,
                                            call.time_unit)]
  /\ UNCHANGED << file, config, args, pc, mon_idx, loc_idx, cat_idx, processed,
                  all_metrics_data, last, exit_code, call, sources, failure,
                  exported >>

CallCriteriaEvaluation ==
  /\ pc = "call"
  /\ ret = Pending
  /\ call.fn = "criteria_evaluation"
  /\ ret' = [evaluation |-> criteria_evaluation(config, call.criteria,
                                                call.value, call.time_unit)]
  /\ UNCHANGED << file, config, args, pc, mon_idx, loc_idx, cat_idx, processed,
                  all_metrics_data, last, exit_code, call, sources, failure,
                  exported >>

NextEval == CallEvaluateMetric \/ CallCriteriaEvaluation

SpecEval == InitEval /\ [][NextEval]_vars

(***************************************************************************)
(* Properties: threshold evaluation.                                       *)
(***************************************************************************)
\* The names under which get_metric_threshold looks thresholds up.
TimeThresholdNames == {"actionDuration", "visuallyComplete",
                       "largestContentfulPaint", "firstByte", "speedIndex"}
RatioThresholdNames == {"availability", "cumulativeLayoutShift"}

\* The threshold tables of a configuration.
TimeTable(cfg) == Get(get_evaluation_criteria(cfg), "time_thresholds", EmptyDict)
RatioTable(cfg) == Get(get_evaluation_criteria(cfg), "ratio_thresholds", EmptyDict)

\* The names of a set that occur in a metric key.
NamesIn(metric_key, names) == {nm \in names : Contains(nm, metric_key)}

\* value <= factor * threshold, on rationals with positive denominators.
LeScaled(value, threshold, factor) ==
  value.n * threshold.d <= threshold.n * factor * value.d

\* The factor that converts a threshold in seconds to the time unit.
UnitFactor(time_unit) == IF time_unit = "ms" THEN 1000 ELSE 1

\* What one criterion's evaluation should be for a representative value.
ExpectedCriterionEvaluation(cfg, criteria, value, time_unit) ==
  IF Get(criteria, "threshold_key", "") \notin DOMAIN TimeTable(cfg) THEN -1
  ELSE IF LeScaled(value, TimeTable(cfg)[criteria.threshold_key],
                   UnitFactor(time_unit)) THEN 1
  ELSE 0

\* A direct call of fn has returned.
Returned(fn) == pc = "call" /\ call.fn = fn /\ ret # Pending

\* C1: evaluation yields Undefined (-1), never Pass (1) or Fail (0), when no
\* threshold is configured for the metric: evaluate_metric for a key none of
\* whose threshold names has an entry in its table, and main's per-criterion
\* evaluation for a criterion whose threshold_key has no entry in
\* time_thresholds.
C1_UndefinedWithoutThreshold ==
  /\ ( /\ Returned("evaluate_metric")
       /\ \A nm \in NamesIn(call.metric_key, TimeThresholdNames) :
            nm \notin DOMAIN TimeTable(config)
       /\ \A nm \in NamesIn(call.metric_key, RatioThresholdNames) :
            nm \notin DOMAIN RatioTable(config) )
     => ret.evaluation = -1
  /\ ( /\ Returned("criteria_evaluation")
       /\ Get(call.criteria, "threshold_key", "") \notin DOMAIN TimeTable(config) )
     => ret.evaluation = -1

\* C1 witness: a file with thresholds for other metrics, and a key whose
\* threshold name (firstByte) has none: the evaluation is -1.
C1_Witness ==
  /\ Returned("evaluate_metric")
  /\ config = DocSchema
  /\ call.metric_key = K_firstByte
  /\ call.value = Int2Num(0)
  /\ ret.evaluation = -1

\* C2: with a threshold configured, evaluate_metric returns Pass iff
\* value >= threshold for an availability key and Pass iff value <= threshold
\* for every other key, and Fail otherwise; a value on the threshold passes.
C2_ComparisonDirection ==
  ( /\ Returned("evaluate_metric")
    /\ ~IsNone(get_metric_threshold(config, call.metric_key, call.time_unit)) )
  => /\ ret.evaluation \in {0, 1}
     /\ ret.evaluation = 1 <=>
          IF Contains("availability", call.metric_key)
            THEN LeScaled(get_metric_threshold(config, call.metric_key,
                                               call.time_unit), call.value, 1)
            ELSE LeScaled(call.value,
                          get_metric_threshold(config, call.metric_key,
                                               call.time_unit), 1)

\* C2 witness: an availability of exactly the threshold (99) passes.
C2_Witness ==
  /\ Returned("evaluate_metric")
  /\ call.metric_key = K_availability
  /\ get_metric_threshold(config, call.metric_key, call.time_unit) = Int2Num(99)
  /\ call.value = Int2Num(99)
  /\ ret.evaluation = 1

\* C3: a time threshold (in seconds) is multiplied by 1000 before the
\* comparison when the time unit is ms and used unchanged when it is s, in
\* evaluate_metric and in main's per-criterion evaluation alike; the ratio
\* thresholds (availability, cumulativeLayoutShift) are compared unscaled in
\* either unit.
C3_ThresholdScaling ==
  /\ Returned("evaluate_metric") =>
       /\ \A nm \in TimeThresholdNames :
            ( /\ NamesIn(call.metric_key,
                         TimeThresholdNames \cup RatioThresholdNames) = {nm}
              /\ nm \in DOMAIN TimeTable(config) )
            => ret.evaluation =
                 IF LeScaled(call.value, TimeTable(config)[nm],
                             UnitFactor(call.time_unit)) THEN 1 ELSE 0
       /\ ( /\ NamesIn(call.metric_key,
                       TimeThresholdNames \cup RatioThresholdNames)
                 = {"availability"}
            /\ "availability" \in DOMAIN RatioTable(config) )
          => ret.evaluation =
               IF LeScaled(RatioTable(config).availability, call.value, 1)
                 THEN 1 ELSE 0
       /\ ( /\ NamesIn(call.metric_key,
                       TimeThresholdNames \cup RatioThresholdNames)
                 = {"cumulativeLayoutShift"}
            /\ "cumulativeLayoutShift" \in DOMAIN RatioTable(config) )
          => ret.evaluation =
               IF LeScaled(call.value,
                           RatioTable(config).cumulativeLayoutShift, 1)
                 THEN 1 ELSE 0
  /\ Returned("criteria_evaluation") =>
       ret.evaluation = ExpectedCriterionEvaluation(config, call.criteria,
                                                    call.value, call.time_unit)

\* C3 witness: in ms, 300 is on the action-duration threshold of 0.3 s and
\* passes.
C3_Witness ==
  /\ Returned("evaluate_metric")
  /\ call.metric_key = K_actionDuration
  /\ call.time_unit = "ms"
  /\ "actionDuration" \in DOMAIN TimeTable(config)
  /\ TimeTable(config).actionDuration = Rat(3, 10)
  /\ call.value = Int2Num(300)
  /\ ret.evaluation = 1

(***************************************************************************)
(* Properties: the rows of an action-duration metric.                      *)
(***************************************************************************)
\* C4: an action-duration metric result with data points adds exactly one row
\* per configured criterion (two for two criteria); each row carries its
\* criterion's display suffix and description, the evaluation of the same
\* representative value against its criterion's own threshold (evaluation
\* mode), and otherwise the same monitor, tags and average.
C4_OneRowPerCriterion ==
  (last # NoLast /\ Contains("actionDuration", last.metric_key)) =>
    LET dual == get_metric_duplicates(config)
        rows == last.rows
        total == Len(all_metrics_data)
    IN  /\ Len(rows) = Len(dual)
        /\ total >= Len(rows)
        /\ SubSeq(all_metrics_data, total - Len(rows) + 1, total) = rows
        /\ \A i \in DOMAIN dual :
             /\ rows[i].avg = last.stats.avg
             /\ rows[i].tags = join_tags(last.monitor.tags)
             /\ IF args.output_mode = "evaluation"
                  THEN /\ rows[i].metric_full_name =
                            last.metric_key \o dual[i].display_suffix \o ":"
                              \o dual[i].description
                       /\ rows[i].evaluation =
                            ExpectedCriterionEvaluation(config, dual[i],
                                                        last.eval_value,
                                                        args.time_unit)
                  ELSE /\ rows[i].metric_name =
                            last.metric_key \o dual[i].display_suffix
                       /\ rows[i].metric_description = dual[i].description
                       /\ rows[i].monitor_name = last.monitor.name
                       /\ rows[i].location = last.location.name
                       /\ rows[i].min = last.stats.min
                       /\ rows[i].max = last.stats.max
                       /\ rows[i].median = last.stats.median
                       /\ rows[i].stdev = last.stats.stdev

\* C4 witness: two criteria, two rows from one value: the first passes its
\* threshold, the second fails its stricter one.
C4_Witness ==
  /\ last # NoLast
  /\ Contains("actionDuration", last.metric_key)
  /\ args.output_mode = "evaluation"
  /\ Len(get_metric_duplicates(config)) = 2
  /\ Len(last.rows) = 2
  /\ last.rows[1].evaluation = 1
  /\ last.rows[2].evaluation = 0
  /\ last.rows[1].avg = last.rows[2].avg

(***************************************************************************)
(* Properties: statistics.                                                 *)
(***************************************************************************)
\* The samples of a call as numbers.
RawValues(values) == [i \in DOMAIN values |-> Int2Num(values[i].num)]

\* The sum of the samples of a call.
RECURSIVE SumOfSamples(_)
SumOfSamples(values) ==
  IF Len(values) = 0 THEN 0 ELSE values[1].num + SumOfSamples(Tail(values))

\* calculate_statistics has returned a summary for a non-empty list of numbers.
Summarised ==
  /\ Returned("calculate_statistics")
  /\ ~IsRaise(ret)
  /\ Len(call.values) > 0
  /\ AllNumeric(call.values)

\* |a| for an integer a.
Magnitude(a) == IF a < 0 THEN -a ELSE a

\* r is a multiple of 0.01 nearest to x / 1000, for a rational x.
NearestHundredth(r, x) ==
  /\ ~r.r
  /\ 100 % r.d = 0
  /\ Magnitude(1000 * r.n * x.d - x.n * r.d) * 200 <= 1000 * r.d * x.d

\* r is a multiple of 0.01 nearest to sqrt(v) / 1000, for a rational v >= 0:
\* with r = k / 100, (k - 1/2) * 10 <= sqrt(v) <= (k + 1/2) * 10.
NearestHundredthOfRoot(r, v) ==
  /\ ~r.r
  /\ 100 % r.d = 0
  /\ r.n >= 0
  /\ \E k \in {r.n * (100 \div r.d)} :
       /\ k = 0 \/ 25 * (2 * k - 1) * (2 * k - 1) * v.d <= v.n
       /\ v.n <= 25 * (2 * k + 1) * (2 * k + 1) * v.d

\* C5 (as the claim states it): for a metric whose catalog entry has
\* aggregation 'counter' and a non-empty sample list, min = max = avg =
\* median = sum(samples) and stdev = 0.
C5_CounterSummary ==
  (Summarised /\ is_counter_metric(config, call.metric_key)) =>
    ret = [min |-> Int2Num(SumOfSamples(call.values)),
           max |-> Int2Num(SumOfSamples(call.values)),
           avg |-> Int2Num(SumOfSamples(call.values)),
           median |-> Int2Num(SumOfSamples(call.values)),
           stdev |-> Int2Num(0)]

\* C6: for a metric the statistics classify as Time, with time unit s every
\* field of the summary is the aggregate of samples / 1000 rounded to 2
\* decimals, and with time unit ms every field is the aggregate of the raw
\* samples, neither divided nor rounded.
C6_TimeMetricUnits ==
  (Summarised /\ is_time_metric(config, call.metric_key)) =>
    IF call.time_unit = "s"
      THEN /\ NearestHundredth(ret.min, np_min(RawValues(call.values)))
           /\ NearestHundredth(ret.max, np_max(RawValues(call.values)))
           /\ NearestHundredth(ret.avg, np_mean(RawValues(call.values)))
           /\ NearestHundredth(ret.median, np_median(RawValues(call.values)))
           /\ NearestHundredthOfRoot(ret.stdev,
                                     Square(np_std(RawValues(call.values))))
      ELSE /\ ret.min = np_min(RawValues(call.values))
           /\ ret.max = np_max(RawValues(call.values))
           /\ ret.avg = np_mean(RawValues(call.values))
           /\ ret.median = np_median(RawValues(call.values))
           /\ ret.stdev = np_std(RawValues(call.values))

\* C6 witness: a Time-classified key in seconds; [100, 200, 300, 400] ms
\* summarise to 0.1, 0.4, 0.25, 0.25 and 0.11.
C6_Witness ==
  /\ Summarised
  /\ is_time_metric(config, call.metric_key)
  /\ call.time_unit = "s"
  /\ call.values = <<N(100), N(200), N(300), N(400)>>
  /\ ret = [min |-> Rat(1, 10), max |-> Rat(4, 10), avg |-> Rat(25, 100),
            median |-> Rat(25, 100), stdev |-> Rat(11, 100)]

\* C7 (as the claim states it): for any non-counter metric at time unit s,
\* under any loaded configuration, [100, 200, 300, 400] summarise to min 0.1,
\* max 0.4, avg 0.25, median 0.25, stdev 0.11.
C7_SecondsScenario ==
  ( /\ Summarised
    /\ ~is_counter_metric(config, call.metric_key)
    /\ call.time_unit = "s"
    /\ call.values = <<N(100), N(200), N(300), N(400)>> )
  => ret = [min |-> Rat(1, 10), max |-> Rat(4, 10), avg |-> Rat(25, 100),
            median |-> Rat(25, 100), stdev |-> Rat(11, 100)]

\* The keyword list at output_format.time_metrics.keywords.
SchemaKeywords(cfg) ==
  Get(Get(Get(cfg, "output_format", EmptyDict), "time_metrics", EmptyDict),
      "keywords", <<>>)

\* C8 (as the claim states it): the statistics classify a key as Time exactly
\* when it contains a keyword of output_format.time_metrics.keywords of the
\* loaded configuration; so under the built-in default a key containing
\* 'duration' is Time.
C8_KeywordsFromOutputFormat ==
  Returned("calculate_statistics") =>
    ( is_time_metric(config, call.metric_key)
      <=> \E i \in DOMAIN SchemaKeywords(config) :
            Contains(Lower(SchemaKeywords(config)[i]), Lower(call.metric_key)) )

\* The exclusion patterns of the classification.
ExclusionPatterns == {"total", "availability", "success", "failure"}

Excluded(metric_key) ==
  \E pattern \in ExclusionPatterns : Contains(pattern, Lower(metric_key))

\* C9 (as the claim states it): a key that matches the exclusion patterns is
\* never classified Time, whatever keyword it contains: its samples are
\* neither divided by 1000 nor rounded as a time metric.
C9_ExclusionPrecedence ==
  (Summarised /\ Excluded(call.metric_key)) =>
    /\ ~is_time_metric(config, call.metric_key)
    /\ call.metric_key \notin SumKeys =>
         /\ ret.min = np_min(RawValues(call.values))
         /\ ret.max = np_max(RawValues(call.values))
         /\ ret.avg = np_mean(RawValues(call.values))

\* C10 (as the claim states it): calculate_statistics never raises; for an
\* empty list and for a list with a value that is no number it returns the
\* summary whose five fields are the configured default, under every
\* configuration the loader produces.
C10_NeverRaises ==
  Returned("calculate_statistics") =>
    /\ ~IsRaise(ret)
    /\ (Len(call.values) = 0 \/ ~AllNumeric(call.values)) =>
         ret = FallbackStats(config.defaults.fallback.stats.default)

(***************************************************************************)
(* Failures while the rows are collected.                                  *)
(***************************************************************************)
\* The metric result main was processing when the run ended.
FailedInCollection ==
  pc = "done" /\ failure # NoFailure /\ failure.stage = "collect"

\* C11: when the processing of one metric result fails (statistics,
\* evaluation or row building), the run is not aborted: it goes on with the
\* remaining results and exports the rows it built.
C11_MetricFailureDoesNotAbort ==
  FailedInCollection => exit_code = 0 /\ exported # NotExported

(***************************************************************************)
(* The exported table.                                                     *)
(***************************************************************************)
\* The configuration export_to_csv reads.
ExportConfig == load_config(file)

ExcelLayout ==
  is_excel_format_enabled(ExportConfig) /\ get_excel_format_mode(ExportConfig) = "excel"

\* The column schema of the run's output mode.
ActiveColumns ==
  IF ~is_evaluation_mode(args.output_mode) THEN get_csv_columns(ExportConfig)
  ELSE IF ExcelLayout THEN get_csv_columns_evaluation_excel(ExportConfig)
  ELSE get_csv_columns_evaluation(ExportConfig)

HasColumn(key) == \E i \in DOMAIN ActiveColumns : ActiveColumns[i].key = key

\* The run collected rows and went through export_to_csv.
ExportEnded ==
  /\ pc = "done"
  /\ Len(all_metrics_data) > 0
  /\ failure # NoFailure => failure.stage = "export"

\* C12: in the Evaluation and EvaluationExcel output the k-th row of the
\* final table carries the sequence index k, whatever the input and the
\* configured sort or excel ordering.
C12_IndexFollowsFinalOrder ==
  (ExportEnded /\ is_evaluation_mode(args.output_mode) /\ HasColumn("index"))
    => /\ exported # NotExported
       /\ \A k \in DOMAIN exported.rows :
            exported.rows[k][renamed(ActiveColumns, "index")] = k

(***************************************************************************)
(* The order of the rows.                                                  *)
(***************************************************************************)
\* The rows main collected, each with the catalog key and the monitor it
\* was built from in the extra fields "source" and "source_monitor", which
\* are in no column schema.
TaggedRows ==
  [i \in DOMAIN all_metrics_data |->
     SetColumn(SetColumn(all_metrics_data[i], "source", sources[i].metric),
               "source_monitor", sources[i].monitor)]

\* The tagged rows in the order sort_by_monitor gives the rows.
SortedTaggedRows ==
  sort_by_monitor(ExportConfig, convert_units(TaggedRows, args.time_unit))

\* The ranks sort_settings configures for a catalog metric.
ConfiguredRanks(metric_key) ==
  <<N(category_order_of(ExportConfig, metric_key)),
    N(metric_order_of(ExportConfig, metric_key))>>

\* The run exported in the standard Evaluation layout.
EvaluationExported ==
  /\ ExportEnded /\ is_evaluation_mode(args.output_mode) /\ ~ExcelLayout
  /\ exported = format_for_evaluation_export(ExportConfig, SortedTaggedRows)

\* C13: in Evaluation mode the rows are in the order of (category rank,
\* metric rank), the ranks sort_settings configures for the catalog metric
\* each row was built from.
C13_EvaluationOrder ==
  EvaluationExported =>
    \A i, j \in DOMAIN SortedTaggedRows :
      i < j => ~KeyLt(ConfiguredRanks(SortedTaggedRows[j].source),
                      ConfiguredRanks(SortedTaggedRows[i].source))

\* The place of row i in the stable sort of the rows with the given keys: one
\* more than the number of rows with a smaller key, or with the same key and
\* an earlier place in the input.
StablePlace(keys, i) ==
  1 + Cardinality({k \in DOMAIN keys :
                     \/ KeyLt(keys[k], keys[i])
                     \/ keys[k] = keys[i] /\ k < i})

StablySorted(df, keys) ==
  [p \in DOMAIN df |-> df[CHOOSE i \in DOMAIN df : StablePlace(keys, i) = p]]

\* The rows main collected as convert_units hands them to the sort.
BuiltRows == convert_units(all_metrics_data, args.time_unit)

\* The Raw mode key of a built row: monitor name, the category rank and the
\* metric rank configured for the row's metric name, location.
RawKeys ==
  [i \in DOMAIN BuiltRows |->
     <<Txt(BuiltRows[i].monitor_name),
       N(category_rank(ExportConfig,
                       get_metric_category(ExportConfig, BuiltRows[i].metric_name))),
       N(metric_rank(ExportConfig,
                     get_metric_category(ExportConfig, BuiltRows[i].metric_name),
                     BuiltRows[i].metric_name)),
       Txt(BuiltRows[i].location)>>]

RawExported ==
  ExportEnded /\ ~is_evaluation_mode(args.output_mode) /\ exported # NotExported

\* C14: in Raw mode the rows of the output are the stable sort of the built
\* rows by (monitor name, category rank, metric rank, location): the keys do
\* not decrease from top to bottom and rows with equal keys keep the order
\* in which they were built.
C14_RawStableSort ==
  RawExported =>
    \A rows \in {BuiltRows}, keys \in {RawKeys} :
      exported = format_for_export(ExportConfig, StablySorted(rows, keys))

\* The sort moved a row before one built earlier, by location alone in one
\* case, and rows with equal keys that differ were kept in order.
C14_Witness ==
  /\ RawExported
  /\ \E keys \in {RawKeys} :
       /\ \E i, j \in DOMAIN keys :
            /\ i < j /\ KeyLt(keys[j], keys[i])
            /\ SubSeq(keys[i], 1, 3) = SubSeq(keys[j], 1, 3)
       /\ \E i, j \in DOMAIN keys :
            /\ i < j /\ keys[i] = keys[j]
            /\ exported.rows[StablePlace(keys, i)]
                 # exported.rows[StablePlace(keys, j)]

\* The tagged rows in the order of the exported table: the Excel layout does
\* not call sort_by_monitor.
FinalTaggedRows ==
  IF is_evaluation_mode(args.output_mode) /\ ExcelLayout
    THEN convert_units(TaggedRows, args.time_unit)
  ELSE SortedTaggedRows

\* The table the formatter of the run's mode makes of the tagged rows.
FormattedTaggedRows ==
  IF ~is_evaluation_mode(args.output_mode)
    THEN format_for_export(ExportConfig, FinalTaggedRows)
  ELSE IF ExcelLayout
    THEN format_for_evaluation_export_excel(ExportConfig, FinalTaggedRows)
  ELSE format_for_evaluation_export(ExportConfig, FinalTaggedRows)

\* sort_settings gives the catalog metric a category rank and a metric rank,
\* or neither.
HasConfiguredRanks(metric_key) ==
  /\ category_order_of(ExportConfig, metric_key) # LastRank
  /\ metric_order_of(ExportConfig, metric_key) # LastRank

HasNoConfiguredRank(metric_key) ==
  /\ category_order_of(ExportConfig, metric_key) = LastRank
  /\ metric_order_of(ExportConfig, metric_key) = LastRank

\* C15: in every output mode a row of a metric without configured ranks comes
\* after every row of a metric with configured ranks (of the same monitor in
\* Raw mode, of the whole table in Evaluation mode), for a partial
\* sort_settings as well.
C15_UnconfiguredSortsLast ==
  (ExportEnded /\ exported # NotExported /\ exported = FormattedTaggedRows) =>
    \A i, j \in DOMAIN FinalTaggedRows :
      (/\ i < j
       /\ HasNoConfiguredRank(FinalTaggedRows[i].source)
       /\ HasConfiguredRanks(FinalTaggedRows[j].source))
      => /\ ~is_evaluation_mode(args.output_mode)
         /\ FinalTaggedRows[i].monitor_name # FinalTaggedRows[j].monitor_name

(***************************************************************************)
(* The Excel layout of the evaluation output.                              *)
(***************************************************************************)
ExcelExportEnded ==
  ExportEnded /\ is_evaluation_mode(args.output_mode) /\ ExcelLayout

\* The key excel_metric_order gives a collected row: the monitor, and the
\* order of the first pattern the composite label contains, or 999.
ExcelKeys ==
  [i \in DOMAIN TaggedRows |->
     <<Txt(TaggedRows[i].source_monitor),
       N(get_excel_sort_order(get_excel_metric_order(ExportConfig),
                              TaggedRows[i].metric_full_name))>>]

\* C16: in the Excel layout with a non-empty excel_metric_order the run
\* completes, and the rows of the table are ordered by monitor name and then
\* by the order of the first configured pattern their composite label
\* contains, 999 when it contains none.
C16_ExcelOrderCompletes ==
  (/\ ExcelExportEnded
   /\ Len(get_excel_metric_order(ExportConfig)) > 0
   /\ HasColumn("metric_full_name"))
    => /\ exit_code = 0
       /\ exported # NotExported
       /\ \A k \in DOMAIN exported.rows :
            exported.rows[k][renamed(ActiveColumns, "metric_full_name")]
              = StablySorted(TaggedRows, ExcelKeys)[k].metric_full_name

\* excel_metric_column_mapping, and the label of the column of a mapped metric.
ExcelMappingOfRun == get_excel_metric_column_mapping(ExportConfig)

ScatteredLabel(metric_key) == renamed(ActiveColumns, ExcelMappingOfRun[metric_key])

\* C17: in the Excel layout the run does not fail over a row whose metric has
\* no entry in excel_metric_column_mapping, and every row has its average in
\* the column mapped to its metric, if there is one, and a blank in every
\* other scattered column.
C17_ScatteredColumns ==
  (/\ ExcelExportEnded
   /\ \A m \in DOMAIN ExcelMappingOfRun : HasColumn(ExcelMappingOfRun[m]))
    => /\ exported # NotExported
       /\ \A k \in DOMAIN exported.rows :
            \A m \in DOMAIN ExcelMappingOfRun :
              exported.rows[k][ScatteredLabel(m)]
                = IF m = FinalTaggedRows[k].source THEN FinalTaggedRows[k].avg
                  ELSE Txt("")

\* C18: in the Excel layout every row of an action-duration measurement,
\* whatever the suffix of its criterion and the catalog's display name, is
\* resolved to the one canonical key of the metric, and no row of another
\* metric is.
C18_DualRowsOneIdentity ==
  (is_evaluation_mode(args.output_mode) /\ ExcelLayout) =>
    \A i \in DOMAIN TaggedRows :
      (TaggedRows[i].source = K_actionDuration)
        <=> (excel_metric_name(TaggedRows[i].metric_full_name) = K_actionDuration)

(***************************************************************************)
(* The projection onto the column schema.                                  *)
(***************************************************************************)
\* The fields of the rows the formatter of the run's mode projects.
RowFields ==
  ColumnsOf(all_metrics_data)
    \cup (IF is_evaluation_mode(args.output_mode) /\ ExcelLayout
            THEN {ExcelMappingOfRun[m] : m \in DOMAIN ExcelMappingOfRun}
          ELSE {})

\* The keys of the schema that are no field of the rows.
MissingKeys ==
  {ActiveColumns[i].key : i \in DOMAIN ActiveColumns} \ RowFields

\* C19: a schema entry whose key is no field of the rows is rendered as an
\* empty column; the projection does not fail.
C19_MissingFieldIsEmptyColumn ==
  (ExportEnded /\ MissingKeys # {}) =>
    /\ exported # NotExported
    /\ \A k \in DOMAIN exported.rows :
         \A key \in MissingKeys :
           exported.rows[k][renamed(ActiveColumns, key)] = Txt("")

\* The Raw mode schema as the configuration lists it, and the order index of
\* each entry.
SchemaEntries ==
  Get(Get(Get(ExportConfig, "output_format", EmptyDict), "csv", EmptyDict),
      "columns", <<>>)

OrderIndexes ==
  [i \in DOMAIN SchemaEntries |-> <<N(Get(SchemaEntries[i], "order", LastRank))>>]

\* C20: the projected table has exactly the columns of the schema, under
\* their display labels and in ascending order of the order index; fields of
\* the rows that are not in the schema do not appear, and the cell under a
\* display label is the value the row had under the internal key.
C20_ProjectionRoundTrip ==
  RawExported =>
    \A schema \in {SchemaEntries}, indexes \in {OrderIndexes},
       built \in {BuiltRows}, keys \in {RawKeys} :
     \A rows \in {StablySorted(built, keys)} :
      /\ Len(exported.columns) = Len(schema)
      /\ \A i \in DOMAIN schema :
           exported.columns[StablePlace(indexes, i)] = schema[i].display_name
      /\ Len(exported.rows) = Len(rows)
      /\ \A k \in DOMAIN exported.rows :
           /\ DOMAIN exported.rows[k]
                = {schema[i].display_name : i \in DOMAIN schema}
           /\ \A i \in DOMAIN schema :
                exported.rows[k][schema[i].display_name] = rows[k][schema[i].key]

\* A table of two rows or more whose schema is not listed in the order of
\* its order indexes and leaves fields of the rows out.
C20_Witness ==
  /\ RawExported
  /\ Len(exported.rows) >= 2
  /\ \E i, j \in DOMAIN SchemaEntries :
       i < j /\ KeyLt(OrderIndexes[j], OrderIndexes[i])
  /\ ColumnsOf(BuiltRows)
       \ {SchemaEntries[i].key : i \in DOMAIN SchemaEntries} # {}

(***************************************************************************)
(* The rows of the two output modes.                                       *)
(***************************************************************************)
\* A metric result with data has been turned into rows in the Evaluation mode.
EvaluationRowsBuilt ==
  last # NoLast /\ is_evaluation_mode(args.output_mode)

\* C21: in the Evaluation mode every row built from a metric result carries
\* the representative statistic, the value of the summary field named by
\* evaluation_value that was compared against the threshold.
C21_RowCarriesRepresentativeValue ==
  EvaluationRowsBuilt =>
    \A i \in DOMAIN last.rows : last.rows[i].avg = last.eval_value

\* C22: in the Evaluation mode the rows built from a metric without dual
\* criteria are one per monitor: no two rows come from the same metric of
\* the same monitor, however many locations the monitor has.
C22_OneEvaluationRowPerMetric ==
  is_evaluation_mode(args.output_mode) =>
    \A i, j \in DOMAIN sources :
      (sources[i] = sources[j] /\ ~Contains("actionDuration", sources[i].metric))
        => i = j

\* The five fields of a statistics summary.
SummaryFields == {"min", "max", "avg", "median", "stdev"}

\* C23: in the Raw mode a metric result with data, of an action-duration
\* metric or any other, contributes exactly one row; the row carries the
\* five summary fields and the description of the metric, and no evaluation.
C23_OneRawRowPerResult ==
  (last # NoLast /\ ~is_evaluation_mode(args.output_mode)) =>
    /\ Len(last.rows) = 1
    /\ \A i \in DOMAIN last.rows :
         /\ \A f \in SummaryFields :
              f \in DOMAIN last.rows[i] /\ last.rows[i][f] = last.stats[f]
         /\ last.rows[i].metric_description
              = get_metric_description(config, last.metric_key)
         /\ "evaluation" \notin DOMAIN last.rows[i]

(***************************************************************************)
(* The fallback to the built-in default configuration.                     *)
(***************************************************************************)
\* The configuration file is absent, is not parsable, or parses to an empty
\* document.
NoUsableConfigFile ==
  file.state \in {"missing", "unparsable"} \/ IsNone(load_config(file))

\* C24: when the configuration file is absent, unparsable or empty, the
\* configuration the client holds is the built-in default (twelve columns
\* with the orders 1..12, no catalog), the accessor the constructor calls
\* returns a value, and the run goes on to the collection.
C24_FallsBackToDefault ==
  (pc # "start" /\ NoUsableConfigFile) =>
    /\ config = DefaultConfig
    /\ Len(get_csv_columns(config)) = 12
    /\ \A i \in 1..12 : get_csv_columns(config)[i].order = i
    /\ get_metrics(config) = <<>>
    /\ ~IsRaise(get_default(config, "api", "request_interval"))
    /\ (pc = "done" => Len(all_metrics_data) = 0 /\ processed = 0 /\ mon_idx > 0)

(***************************************************************************)
(* The fatal conditions.                                                   *)
(***************************************************************************)
\* The lengths of the months of a year.
MonthLengths(year) ==
  << 31, IF year % 4 = 0 /\ (year % 100 # 0 \/ year % 400 = 0) THEN 29 ELSE 28,
     31, 30, 31, 30, 31, 31, 30, 31, 30, 31 >>

\* The years of the dates the runs are started with (year 0 is no year).
CalendarYears == {1, 2024, 2025}

\* Every calendar date of these years, written as YYYYMMDD.
CalendarDates ==
  { zfill(t[1], 4) \o zfill(t[2], 2) \o zfill(t[3], 2) :
      t \in {u \in CalendarYears \X (1..12) \X (1..31) :
               u[3] <= MonthLengths(u[1])[u[2]]} }

\* The date range of the run is malformed: a date is no calendar date
\* written with eight digits, or the start is later than the end.
MalformedRange ==
  \/ args.start \notin CalendarDates
  \/ args.end \notin CalendarDates
  \/ StrLt(args.end, args.start)

\* C25: a malformed date range makes parse_date_range raise ValueError and
\* ends main with a non-zero exit status before anything is collected or
\* exported; a run that ends with no row collected returns a non-zero exit
\* status without exporting; MetricsDataFrame rejects an empty list of rows.
C25_FatalConditions ==
  /\ MalformedRange =>
       /\ parse_date_range(args.start, args.end) = Raise("ValueError")
       /\ pc # "start" =>
            /\ pc = "done" /\ exit_code = 1
            /\ exported = NotExported /\ Len(all_metrics_data) = 0
            /\ client_init_ok(config)
                 => failure = Caught(Raise("ValueError"), "dates")
  /\ (pc = "done" /\ Len(all_metrics_data) = 0) =>
       exit_code = 1 /\ exported = NotExported
  /\ create_dataframe(<<>>) = Raise("ValueError")

\* A run started with two calendar dates, the start after the end, has ended
\* at parse_date_range.
C25_Witness ==
  /\ args.start \in CalendarDates /\ args.end \in CalendarDates
  /\ StrLt(args.end, args.start)
  /\ pc = "done" /\ exit_code = 1
  /\ failure = Caught(Raise("ValueError"), "dates")

(***************************************************************************)
(* The units of the evaluated value and of the threshold.                  *)
(***************************************************************************)
\* The last metric result was evaluated against a time threshold: by
\* evaluate_metric, or by one of the dual criteria.
EvaluatedAgainstTimeThreshold ==
  /\ last # NoLast
  /\ NamesIn(last.metric_key, TimeThresholdNames) # {}
  /\ \/ ~IsNone(get_metric_threshold(config, last.metric_key, args.time_unit))
     \/ /\ Contains("actionDuration", last.metric_key)
        /\ \E i \in DOMAIN get_metric_duplicates(config) :
             Get(get_metric_duplicates(config)[i], "threshold_key", "")
               \in DOMAIN TimeTable(config)

\* The representative statistic of the raw samples, in milliseconds.
RawRepresentative ==
  Get(np_stats(RawValues(last.data_points)), get_evaluation_value_type(config),
      np_mean(RawValues(last.data_points)))

\* C27: a value evaluated against a time threshold is in the unit of the
\* threshold: with time unit s it is the statistic of the samples divided by
\* 1000 (to 2 decimals) and the threshold is the configured number of
\* seconds; with time unit ms it is the statistic of the raw samples and the
\* threshold is 1000 times the configured number.
C27_ValueAndThresholdSameUnit ==
  EvaluatedAgainstTimeThreshold =>
    /\ IF args.time_unit = "s"
         THEN NearestHundredth(last.eval_value, RawRepresentative)
       ELSE last.eval_value = RawRepresentative
    /\ \A seconds \in {get_metric_threshold(config, last.metric_key, "s")} :
         ~IsNone(seconds) =>
           get_metric_threshold(config, last.metric_key, args.time_unit)
             = RMulInt(seconds, UnitFactor(args.time_unit))

(***************************************************************************)
(* The rows of an action-duration metric.                                  *)
(***************************************************************************)
\* C28: an action-duration metric result with data contributes at least one
\* row, in the Raw and in the Evaluation mode, whatever the configuration
\* holds under action_duration_dual_criteria.
C28_ActionDurationNeverDropped ==
  (last # NoLast /\ Contains("actionDuration", last.metric_key)) =>
    Len(last.rows) >= 1

(***************************************************************************)
(* The normalization of the metric identifier.                             *)
(***************************************************************************)
\* C29: the identifier main derives from the metricId of a result is the
\* catalog key of the metric the result was requested for, so the lookups
\* by that identifier (definition, counter check) find that catalog entry.
C29_NormalizedIdIsCatalogKey ==
  last # NoLast =>
    \E k \in DOMAIN get_metrics(config) :
      /\ last.metric_key_raw \in ApiMetricIds(get_metrics(config)[k])
      /\ last.metric_key = get_metrics(config)[k].key
      /\ get_metric_definition(config, last.metric_key) = get_metrics(config)[k]
      /\ is_counter_metric(config, last.metric_key)
           = (Get(get_metrics(config)[k], "aggregation", "") = "counter")

(***************************************************************************)
(* The unit marker of the description.                                     *)
(***************************************************************************)
\* C30: in a Raw mode export with time unit s, the description of a row that
\* carries the marker (ms) is rewritten to (s) by convert_units if and only
\* if the statistics of the row were divided by 1000, that is, its metric
\* was Time-classified by calculate_statistics.
C30_MarkerFollowsDivision ==
  (RawExported /\ args.time_unit = "s") =>
    \A built \in {BuiltRows} :
      \A i \in DOMAIN all_metrics_data :
        Contains("(ms)", all_metrics_data[i].metric_description) =>
          ( Contains("(s)", built[i].metric_description)
              <=> is_time_metric(config, all_metrics_data[i].metric_name) )

\* C26: for every non-empty list of numbers, every metric key and either
\* time unit, the summary calculate_statistics returns is ordered:
\* min <= median <= max and min <= avg <= max, after the division by 1000
\* and the rounding to two decimals as well.
C26_SummaryIsOrdered ==
  (/\ pc = "call"
   /\ call.fn = "calculate_statistics"
   /\ ret # Pending
   /\ Len(call.values) > 0
   /\ AllNumeric(call.values)
   /\ ~IsRaise(ret))
    => /\ RLe(ret.min, ret.median) /\ RLe(ret.median, ret.max)
       /\ RLe(ret.min, ret.avg) /\ RLe(ret.avg, ret.max)

====
